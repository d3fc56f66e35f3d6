# Formal models of NYCU-NTU-Course-Archive

The repository is an archive of one student's courses.  Most of it is notes,
slides and the output of vendor tools; a few course projects are real programs
with state that is hard to test.  This directory holds TLA+ models of those
programs, the TLC runs that check them and TLAPS proofs about them.

Every definition is translated from the code.  `PROJECT.json` maps each one to
its file and lines, lists the runs with their properties, the hazards of the
code and the properties aimed at each, the disagreements found between code
and documentation, and the theorems.

Contents: 1 inventory, 2 the debugger (`Sdb`), 3 the C library (`LibMini`),
4 the lsof clone (`Lsof`), 5 the file logger (`Hijack`), 6 the accelerator
(`RDataFeeder`), 7 the data cache (`DCache`), 8 the memory path (`MemPath`), each
with the proofs about it in a module of the same name and `Proofs`, 9 all runs, 10
proofs, 11 findings and other disagreements, 12 what is not modelled, 13 plan, 14
how to run.

Short names of paths used below:

| name | path under `src/Courses/` |
|---|---|
| HW1 ... HW4 | `semester 6/高等UNIX程式設計/HW1` ... `HW4` |
| Aquila | `semester 7/微處理機系統原理與實作/src/HW5` |
| Feeder | `semester 7/微處理機系統原理與實作/src/Final_DataFeeder` |

## 1. Inventory

**Programs of the UNIX programming course**

| component | state | operations | hard behaviour | what makes it correct | module |
|---|---|---|---|---|---|
| sdb, a ptrace debugger (HW4/hw4.c) | command state, breakpoint table, and in the kernel: the child, its rip and its text | load, start, run, cont, si, break, delete, set, dump, disasm, vmmap, exit; the child's steps, signals, exit | the child runs while the debugger sleeps; a breakpoint is lifted during a step; restarts lose the planted bytes; signals stop the child too; memory is read through planted bytes | the child has 0xcc at exactly the listed breakpoints; every hit is reported once, none missed; the child computes what it would alone; what is shown is true | Sdb, SdbView, SdbProofs, SdbViewProofs |
| libmini, a C library (HW3) | errno; jmp_bufs; in the kernel: mask, pending signals, sigactions, timer | system call wrappers, signal, sigaction, sigprocmask, sigpending, setjmp, longjmp, alarm, pause, sleep, perror, exit | handlers on top of any instruction, and of each other; jumps out of handlers | the mask is the program's own when handlers have returned; errno is that of the call that failed | LibMini, LibMiniProofs |
| lsof clone (HW1/hw1.c) | array of rows, open descriptors | walk /proc, read cmdline, links, maps and descriptors of each process, filter, print | processes change between two looks; descriptors leak; a fixed array | an undisturbed process has exactly the rows HW1/README.md asks for, whatever the others do | Lsof, LsofProofs |
| file activity logger (HW2/hijack.c) | errno, descriptors, output stream | preloaded wrappers of 14 libc calls | a wrapper's own calls disturb errno, and look names up before or after the call | the caller cannot tell the wrapper from the call; the line names the file | FileCalls, Hijack, HijackProofs |

**Hardware of the microprocessor course** (Verilog; the Aquila core is course
material, extended by the student)

| component | state | operations | hard behaviour | what makes it correct | module |
|---|---|---|---|---|---|
| RDataFeeder (Feeder/.../RDataFeeder.v) | two buffers, two state machines, counters | bus writes of elements, start, read of the sum | starts before all elements are written, at the pace of a third unit | the answer is the dot product | RDataFeeder, RDataFeederProofs |
| data cache (Aquila/core_rtl/dcache.v) | tags, VALID, DIRTY, FIFO counters, state machine | read, write, flush, atomic access | write-back and refill over many cycles; an atomic access goes around the cache; a strobe of one cycle that comes during a flush | the processor sees one memory | DCache, DCacheProofs |
| atomic unit (core_rtl/atomic_unit.v) | reservations per core, state machine | LR, SC, AMO | a read and a write with other accesses before, between and after | SC succeeds only if nobody wrote since LR | AtomicUnit |
| clock crossing (soc_rtl/cdc_sync.v) | ten FIFOs, sixteen state machines, on two clocks | take a request, hand it over, bring the answer back | the signals of one request arrive in any order | each request done once, answered once, with its own data | CdcSync |
| memory arbiter (soc_rtl/mem_arbiter.v) | kept strobes, state machine | accept, select, send, answer | a strobe in the cycle another one is answered; fetches before data | nothing lost, nobody starves | MemArbiter; the three composed: MemPath, MemPathProofs |
| instruction cache, branch predictor, pipeline, UART, SoC top, HW3's cache variants, `DataFeeder.sv`, stimuli, vendor IP | | | | see section 12 | |

The programs do not call each other.  HW1 ... HW4 each run in a process of
their own and interact with the Linux kernel, with the processes it shows them
(HW1), with the traced process (HW4) and with the program they are linked to or
loaded into (HW2, HW3).  In the hardware, caches, atomic unit, clock crossing
and arbiter are connected by strobe and done signals in this order; `MemPath`
composes the last three.  RDataFeeder is a device on the processor's bus.

## 2. The debugger: `Sdb`, `SdbTransparent`, `SdbProgram`, `SdbView`

**State and code.**  `dbg` is where `main()` is: the prompt of state NOT LOADED
(`noload`), LOADED (`load`) or RUNNING (`prompt`), asleep in one of its three
waitpid calls (`stepover`, `contwait`, `siwait`), or ended, and how.
`bpoint_arr` and `bpoint_arr_size` are the table; `lifted` stands for the local
`oldaddr` and the word saved with it; `first` tells the waitpid loop of "run" in
state LOADED (hw4.c:222) from the others; `hit` is the address of the last
`** breakpoint @` line; `helpers` counts the processes disasm leaves behind.
`child`, `rip`, `text`, `stop` are the traced process as the kernel has it.
`moved` and `signals` are history and budget.

The array of the table is modelled with the `Below` words in front of it
(`Cells`), which a negative index of delete reaches since hw4.c:451 only compares
from above.  Before any such delete each of them is null or a pointer to something
that is no breakpoint (`STRAY`, as stderr is).

**Actions.**  A command is one action up to the waitpid it sleeps in, because
nothing else writes the debugger's memory or a stopped child's text in between;
the continuation after waitpid is an action of its own (`StepOverDone`,
`ContDone`, `SiDone`).  Errors are actions too: `LaunchFails`,
`RegistersFail`, `BlankLine` (strcpy from NULL), `BreakOverflow` (no check at
hw4.c:822), and `End` carries PTRACE_O_EXITKILL.  `Peek` and `Poke` fail silently
on a dead child, as the unchecked ptrace calls do.

`Delete` takes any index whose cell holds a breakpoint, and restores its byte;
`DeleteStray` one whose cell does not: null is a crash, and the POKE through any
other pointer fails unseen.  Both end in `remove_bpoint_arr`, which shifts from the
index on (`Shifted`): with index -1 slot 0 moves into the word in front, stays
planted, and is found there by the next `delete -1`, which restores its byte even if
the user has set the same breakpoint anew.  `NoneMovedOut` is the time before that:
nothing can be said of the text afterwards, so `BreakpointsArmed`, `SavedBytes` and
`NoMissedBreakpoint` are conditional on it, while the types of the table and
`UniqueAddresses` hold for ever.

The child (external) follows the control flow graph `Starts`, `Length`, `Succ`,
`Exits` of the constants as long as the bytes under rip are its own
(`ChildExec`, `ChildExit`), traps on 0xcc (`ChildTrap`) and may do anything to
rip on other bytes (`ChildWild`).  `Signal` and `Kill` come from outside.

`SdbProgram` is the program alone, with no debugger.  `SdbTransparent` maps the
debugged child to it (one byte back between a trap and the debugger's `rip--`)
and states that it implements it; `Tame` names what that takes: breakpoints and
`set rip` on instructions, no negative delete, no int3 in the program, no
signals.

`SdbView` adds what is printed from the child's memory.  PTRACE_PEEKTEXT reads
`Word` bytes at any alignment, and -1 where the word leaves the mapping.  `Dump`
reads the child; `gdbdisasm` reads a freshly executed copy, decodes `CodeSize`
bytes of a buffer in which it has filled only `DisasmWords` words, and stops
behind .text; the message of a breakpoint is decoded from the child before 0xcc
is poked; `gdbvmmap` prints a file name that sscanf leaves alone when a line has
none.  `shown` is what the last command printed.  The instructions of the program
decode as they are; what capstone makes of any other byte is the constant `Size`,
in which 0 is a byte it cannot decode.  There `cs_disasm` stops, so that the
listing ends with no out-of-range message, or is "failed" when the first byte
does not decode (`Decodes`, `disasm_instr`).  The message array of a breakpoint
that did not decode holds `Junk`, what nobody set.

**Bounds** (`MCSdb`, `MCSdbView`).  A text of five bytes: an instruction with an
inside, two adjacent breakpoints, a loop and an exit call.  Three
addresses for two slots in `sdb_any`, four for three in `sdb_tame`, so that full,
overflowing and shifted tables all happen.  `sdb_any` has one word in front of the
array and the indices -1, 0 and 1 of delete: a breakpoint is moved out, set anew and
deleted by the next -1.  `sdb_tame` has no negative index, which nothing said there
survives.  `MaxSignals = 1`: the debugger has no memory of earlier signals.
`ProcLimit = 2`: disasm succeeds once and then fails.  Words of two bytes, so that
.text takes three at every alignment.  `RipRange` stops the user from stepping a
lost rip ever further from the text.

**Fairness.**  `ViewSpec` (like `FairSpec`) has WF on `ChildStep` (the kernel
runs a process that can run) and on `Wake` (waitpid returns when the child has
stopped or ended).  The user is never assumed to type anything.  Under it
`LoopReturns` says that the debugger sleeps for ever only if the program loops
past no breakpoint.  Deadlock is checked: a prompt always accepts a command.

## 3. The C library: `LibMini`

**State and code.**  `frames` is the stack: frame 1 is main, each frame above a
handler the kernel started on what the frame below was doing.  A frame records
the call it is in (`op`, `arg`, `buf`, and `r11` for the register longjmp loads
the mask into) and what was put aside when the handler began (`mask` by the
kernel, `errno` by the handler if `PoliteHandlers`).  `blocked`, `pending`,
`disp`, `timer` are the kernel's; `errno` and `env` (the jmp_bufs) the
library's.  `want` and `left` are history for `MainMask`: the mask main asked
for, and the signals that were blocked for handlers when one of them jumped into
main, until main unblocks them.  A `sigset_t` is the set of its signals; how
sigaddset and its kin keep it in words is not modelled (section 12).

**Granularity.**  A library function is as many steps as it has places where a
handler can tell the difference.  A wrapper (`WRAPPER_RETval`, libmini.c:5) is
the system call, `errno = 0` (`Reset`), and `errno = -ret` (`Store`).  setjmp
saves registers (`setjmp`) and then the mask (`SetjmpMask`); longjmp cuts the
stack back (`longjmp`) and then makes its system call (`LongjmpMask`).  perror is
the prefix and the message.  sigaction is refused with EINVAL for KILL, STOP and
numbers that are no signal.  sigprocmask, sigpending and the assembler's sleep
do not follow the errno protocol, and the model does not pretend they do.

**What the kernel does** (external): `Handle` pushes a frame and blocks the
handler's signal and its sa_mask; `Interrupted` is EINTR and SA_RESTART;
`Dispose` is the default action and the ignored signal, and a crash when a
handler has no restorer; `Arrives` and `TimerExpires` generate signals.  A signal
that is due is delivered before the program's next step (`Due`).

**Bounds.**  Which functions the program may call is a constant (`Uses`), one
set per run, so that each run has the interesting interleavings in reach;
between them the passing runs take every step of the module.  Two signals: one
that nests in the other and back.  `MaxDepth` 3 (2 in `lm_errno`): a handler in
a handler; on a full stack delivery is put off, which is a legal schedule.  One
jmp_buf: saved again and jumped to from every level.  `Vals` are the 64 bits of
the register longjmp takes its int from and `HalfWord` is 2 to the width of an
int, here 2: 0, which becomes 1, and a word whose lower half is 0 and upper half is
not.  Errors: EINTR, EINVAL, and 39, which is beyond perror's table.  What goes
wrong with both of them ends in states the models have and section 11 names.

**Fairness.**  None: all properties are safety properties.  Deadlock is not
checked in `lm_errno`, where handlers of both signals can pause at once and then
sleep for ever.

## 4. The lsof clone: `Lsof`

**State and code.**  `proc` is what /proc shows of each pid, an image: user,
command, links, the file mapped in each of `Areas`, the file and the open mode of
each descriptor, and whether its links may be read.  `pc` is the next system call
of the program; `pids`/`pid`, `special`, `area`/`lines`/`lastinode`, `fds`/`fd`
are where its nested loops are; `row` is the `fileinfo` being filled in; `ansarr`
the rows, `show` the ones to print, `open` the number of its open descriptors.
`stale` is true when the process behind the open handle has exited, even if its
pid is in use again; `touched` is history.

**Actions.**  `GetOpt` reads the arguments, and exits on an invalid one.  Then one
action per system call (`OpenProc`, `ReadProc`, `FindUser`, `OpenCmdline`, ...
`ReadFdLink`), with the error path of each: the code goes to the next pid, to the
next phase, or lists a NOFD row.  Directories and the maps file are read in
pieces of `Batch` entries (`ReadMaps` reads a piece, `ListMapping` uses a line of
it), so an entry may be gone when it is used and the maps of two programs
may follow each other.  The filters -c, -t and -f run afterwards, in this order
(`FilterC`, `FilterT`, `FilterF`).  Between any two actions another process may
start, exec or change its files, exit, or exit and leave its pid to a new one
(`Start`, `Mutate`, `Exit`, `Reuse`).

A file stands for its name and its inode; `Deleted` files have " (deleted)"
behind the name in /proc and `NamedDeleted` ones a "deleted" within it; `Link` is
the text of a link.  A pattern is the set of strings it matches, and the type of a
row nobody wrote to is what malloc left (`Leftovers`).

**What it should print.**  `Expected` is the rows HW1/README.md asks for, column by
column, not those of the code.  The two differ for some files: a kernel thread's
links and command, deleted files, a file with "deleted" in its name, block devices,
descriptors whose owner bits are not the open mode, a file mapped again after
another.  `Faithful` asks for all other rows (`Strange` names the exceptions), and
section 11 says what the code does with each exception.  `ListedOnce` is what the
code does against duplicates: mappings of one file that follow each other in an
unchanged process make one row.

**Bounds** (`MCLsof`).  Two pids, so that one can be disturbed while the other is
visited; four images: a shell mapping its file twice, a kernel thread, a
process of somebody else, one with all of the exceptions above.  Three areas, read
two at a time.  One change by the others: enough to put any of them between any two
calls.  `Limit = 9`: three descriptors of the program's own, one for /proc, four
lost by two processes and one to work with; the finding takes 8.  `ArrLen = 16`
is the least that holds the rows.  Both are where the assumptions of the theorems
put them (section 10): `EnoughFds` asks for 9 descriptors here, `EnoughRows(3, 2)`
for 16 rows.

**Fairness.**  WF of the program's own steps: the system calls it makes return.

## 5. The file logger: `FileCalls`, `Hijack`

`FileCalls` (external) is a program that makes the monitored calls with no
logger: names, files, descriptors, streams, who has written to each file, and
what the program is told.  Any call may fail, and another process may change a
name at any time.

`Hijack` is the same program with the library preloaded.  A wrapper is four
steps at most: it is entered (`chmod` ... `write`), looks its name up before the
call (`Lookup`: readlink of the descriptor, realpath of what is about to be
removed or renamed), makes the original call (`Original`), looks the name up after
it (`Resolve`), and prints and returns (`Log`).  `meant` is history: the file the
call was about, taken when the program asked.

Names are cut where the code cuts them: `fdpath` to the eight bytes of a pointer
(hijack.c:22, 110), `safestr` to 32 (hijack.c:54); `Tiny` and `Short` are the paths
that fit, and a printed `Name` records whether it is `whole`.  safestr copies before
it cuts: `Overruns` are the calls whose data has no zero among the first 1024 bytes,
after which the name is spoilt (`Spoilt`), or the program is ended (`Smash`). The
wrappers keep every result in an int, so that what the caller gets is `Narrow` of
what the call returned.

`NamesTheFile` says that the line of a call is about the file `meant`: of the
descriptor as it was before a close, of both paths of a rename; and that it has all
of the name where the arrays of the code hold it (`Fits`).  `Transparent` is the
refinement of `FileCalls`: without the log's own text, the program does and is told
what it would be without the logger.  It names what it leaves out: any result of
close (`AnyResult`), and the end of the program in a call whose data overrun
safestr's array, the only step the program alone does not have.

**Bounds** (`MCHijack`).  Two paths, two files besides the terminal, descriptor 2
and one more, three calls and one change by another process: a file can be created,
renamed onto another, closed under the logger and written to, with data that end
within the logger's array and data that do not.  One of the files has a name of at
most eight bytes, and one path is longer than 32.  Deadlock is not checked: the
program ends after its calls.

## 6. The accelerator: `RDataFeeder`

One action is one clock edge.  `A_state` and `S_state` are the two state
machines, the other registers keep their names; `fresh1` and `fresh2` are the
entries of the buffers written in this round, the stand-in for their contents.
Numbers are abstracted to where they come from: a sum says how often the product
of each pair was added to it, and whether anything stale was.  The floating
point unit is external and takes any of the cycles in `Latency`; the processor
is external too: it writes the length and the pairs in order, waits for READY
after each access, and takes as long as it likes between accesses.

The reader is not held back by the writer when it is faster: it then reads at the
bound, an entry of an earlier round (`overrun`), and the sum is wrong.  `DotProduct`
therefore speaks of rounds without an overrun, `Computes` of all of them; section 11
has the sequence that overruns.

**Bounds.**  Four entries, lengths 1 to 4, two rounds (what a round leaves
behind is seen by the next), latencies 0, 2 and 7: faster than a bus access, as
fast, and slower than two.  **Fairness**: WF of `Next`, the clock runs.

## 7. The data cache: `DCache`, `DCacheProofs`

One action per state of the controller, named for it; the combinational signals
(`hits`, `hit_index`, `victim_sel`) and the bit arrays keep their names.  A word's
contents are abstracted to whether they are current: `data` and `mem` are the
sets of current words of each line.  Writing a word makes every other copy of it
not current, so that a lost write is seen wherever it is read.  Memory answers
after any time; WF of `Work` says that it does.

The processor's strobe lasts one cycle and is looked at in `Idle` only.  An access
whose strobe comes during a flush is `Missed`: nothing registers it, and the
`p_ready_o` that ends the flush answers it, with 0 (`AnswersMissed`); one that comes
in the flush's last cycle is never answered (`LateMissed`).  A flush is asked for
in `Idle`, by a fence.i that carries an address; decode.v makes it a store, so
that `StartFlush` writes when that address is in the cache (`FlushAt`).

Three things the processor can ask for end badly, and `misuse` is the set of those
it has asked for: `"amo"`, an atomic operation that misses while way 0 of its set is
dirty; `"access"`, one during a flush; `"fence"`, a fence.i whose address lies in
cached memory.  `ReadsLastWrite`, `NothingLost` and `FlushWritesAll` are about the
time before the first of them, with every legal request in any order; `TypeOK` and
`Answered` about all time.  Section 11 says what each of the three destroys.

**Bounds.**  Two ways, three tags: every line competes for a full set.  The second
set only holds lines for a flush to find, so that its counters wrap. `MaxAfter = 1`
request after the first misuse, enough to see that the controller goes on.  Deadlock
is not checked: the processor waits for ever after `LateMissed`.

## 8. The memory path: `Bus`, `AtomicUnit`, `CdcSync`, `MemArbiter`, `MemPath`

`AtomicUnit`, `CdcSync` and `MemArbiter` are one module per Verilog file, each a
set of registers, combinational signals as operators over them, and one operator
per clock edge (`AtomicTick`, `CdcCoreTick`, `CdcMemcTick`, `ArbiterTick`) whose
parameters are its input wires.  `Bus` has what they share.  `MemPath` wires them
as aquila_top.v and soc_top.v do, and has two actions: an edge of the core's clock
(`CoreEdge`) and one of the memory's (`MemcEdge`), in any order.  Each edge
chooses which FIFOs show their items (`seen`), so that the signals of one request
arrive together or cycles apart, and whether the memory controller is ready and
has data.

The caches are external: each holds a request until it is answered, and its
strobe is low for a cycle before the next.  `before`, `current` and `linked` are
history: memory when the data access was asked for, the values a line had
during a fetch, and where the last LR was.  No FIFO ever holds two items
(`TypeOK`), which is why full FIFOs need no model.

`ScNeedsLr` excludes a core for which a plain access carried the bits of LR
since its last LR; section 11 says why.

**Bounds** (`MCMemPath`).  One core, as aquila_top.v instantiates; two lines, so
that data and fetches meet and do not; two words for the reservation; values
modulo 2, where a lost and a repeated addition differ from one done once.

**Fairness.**  WF of an edge of each clock in which every FIFO that has an item
shows it and the controller is ready and answers: both clocks run, and nothing
external takes for ever.  `Answered` needs no more: fetches win over data
accesses, but the next fetch takes a round trip, and the data access goes
meanwhile.

## 9. Runs

| run | module, cfg | properties | shows |
|---|---|---|---|
| `sdb_any` | MCSdb, Sdb_any | `TypeOK`, `UniqueAddresses`, `BreakpointsArmed`, `SavedBytes`, `NoMissedBreakpoint` | breakpoints on any byte, more than the table has slots, jumps into the middle of an instruction, restarts, a signal or a kill, negative indices of delete: the table keeps its shape, and until a negative index moves a breakpoint out of it table and text stay in step |
| `sdb_tame` | MCSdbView, Sdb_tame | `ReportExact`, `ContProgress`, `Transparent`, `LoopReturns`, `DisasmExact`, `DumpExact` | breakpoints and jumps on instructions: each hit is announced, cont advances, the child is the program alone, the debugger gets it back, and what is shown of it is true |
| `lm_signals` | MCLibMini, LibMini_signals | `MainMask`, `NoReentry` | sigaction with sa_masks, kill, sigprocmask, sigpending, setjmp and longjmp in main and handlers, up to three frames |
| `lm_errno` | MCLibMini, LibMini_errno | `TypeOK`, `ErrnoKept` | failing wrappers, read, sleep, pause, alarm, perror, interrupted by handlers that fail too but keep errno |
| `lm_longjmp_finding` | MCLibMini, LibMini_longjmp_finding | `LongjmpRestores` (violated) | section 11 |
| `lsof_walk` | MCLsof, Lsof_walk | `TypeOK`, `Faithful`, `ListedOnce`, `ShownExactly`, `NodeReal`, `Terminates` | an undisturbed process has exactly the rows HW1/README.md asks for, but for its strange files; no adjacent mapping twice; the filters compose; no number printed is one nobody wrote; the walk ends |
| `lsof_limit_finding` | MCLsof, Lsof_limit_finding | `NoFalseDenial` (violated) | section 11 |
| `hijack` | MCHijack, Hijack | `TypeOK`, `NamesTheFile`, `ErrnoKept`, `Transparent` | all fourteen wrappers, stderr closed or not, data that overrun the logger or not, one change by another process |
| `feeder` | MCRDataFeeder, RDataFeeder | `TypeOK`, `DotProduct`, `Computes` | two rounds of every length at every pace |
| `dcache` | MCDCache, DCache | `TypeOK`, `ReadsLastWrite`, `NothingLost`, `FlushWritesAll`, `Answered` | reads, writes, atomic operations and flushes in any order and at any time: until the first misuse the cache is a memory, and the controller always returns to `Idle` |
| `dcache_amo_finding` | MCDCache, DCache_amo_finding | `AtomicsHarmless` (violated) | section 11 |
| `mempath` | MCMemPath, MemPath | `TypeOK`, `EachOnce`, `FetchCurrent`, `ScNeedsLr`, `Answered` | reads, writes, LR, SC and AMO next to instruction fetches |

Each property of a passing run has a mutant in `PROJECT.json`: a plausible bug of
the code (an operator next to the definition it replaces, marked `mutant`) under
which the run refutes the property.

## 10. Proofs

All theorems hold for every value of the constants that satisfies the ASSUMEs of
the modules, and under what is written next to them.  TLC evaluates the ASSUMEs
in every run, and the strengthened invariants were checked with TLC before they
were proved.

**`SdbProofs`**

| theorem | under | property |
|---|---|---|
| `TypeCorrect` | | `TypeOK`: the table is a block of breakpoints followed by nulls |
| `AddressesUnique` | | `UniqueAddresses`, negative deletes included |
| `Armed` | | `BreakpointsArmed`, until a negative delete moves a breakpoint out |
| `BytesSaved` | | `SavedBytes`, until then |
| `NoneMissed` | | `NoMissedBreakpoint`, until then |
| `ReportsExactly` | `Tame` | `ReportExact` |
| `ContMakesProgress` | `Tame` | `ContProgress` |
| `DebuggerTransparent` | `Tame` | `Transparent`: the debugged child implements `SdbProgram` |

The argument has three layers.  `TypeInv` adds `UniqueAddresses` to the types: an
insert is refused for a listed address, and the shift of a delete keeps slots
distinct.  `TextInv` says what the child's text is at all times: `ChildPhase` ties
the child to the place of `main()`, `LiftedOK` says that a breakpoint is lifted only
during a single step, `TableSaved` that each slot has the program's byte, and
`TextFaithful` that the text is `Planted`, except for the lifted byte.  It is
inductive only with all four: planting reads the byte it saves from the text, so
`TableSaved` needs `TextFaithful` (and that the address is not listed yet), and
restoring after a step needs both.  For any index of delete the invariant is
`TableInv`, `TextInv` as long as `NoneMovedOut` holds: a negative index changes
nothing or moves slot 0 out of the table (`NegativeMoves`), and what is out stays
out (`MovedStays`).  `ExecInv` adds where rip can be when the program is tame, in
particular that the child, once trapped under cont, is one byte behind a listed
breakpoint and has executed something.  The refinement follows action by action from
`ProgramInv == TypeInv /\ TextInv /\ ExecInv`.

**`SdbViewProofs`**

| theorem | under | property |
|---|---|---|
| `DumpIsExact` | `DeleteArgs \subseteq Nat` | `DumpExact` |
| `DisasmIsExact` | `Tame`, `Tiled`, `FitWords(m)` for some m | `DisasmExact` |

They hold for every program, word size, number of words, number of lines and
mapping.  Every step of `ViewNext` is a step of `Next` or stutters (`ViewStep`), so
that the invariants of `SdbProofs` hold here too: dump reads a child whose text is
`Planted`, and each byte of `.text` lies in a word that is mapped (`WordsRead`).
`MsgInv` carries the message of each breakpoint, read when its instruction was not
planted and no other breakpoint was inside it.  For disasm, `Sweep` shows by
induction that the k-th instruction found is the one with k before it, or past
`.text` with no more than k to show.  `Tiled`: instructions fill `.text`.
`FitWords(m)`: no instruction is longer than m, the ten lines of m bytes fit the
words that are read, and two words hold one instruction.  The listing says that it
left .text only if the bytes behind .text decode, as in the code.  Ten lines in 18
words of eight bytes leave m = 14; an x86 instruction can have 15 bytes, and ten
lines of more than 144 bytes together are where hw4.c's words are too few (section
11).

**`LibMiniProofs`**

| theorem | under | property |
|---|---|---|
| `TypeCorrect` | | `TypeOK` |
| `MainMaskKept` | `HandlerHows` has neither unblock nor setmask | `MainMask` |
| `NeverReentered` | `HandlerHows` has neither unblock nor setmask | `NoReentry` |
| `ErrnoIsKept` | `PoliteHandlers`, `"badset" \notin Uses` | `ErrnoKept` |

They hold for stacks of every depth.  `TypeInv` says of each frame what its
argument may be, by what the frame is doing (`GoodFrame`), and of each installed
action that its handler has a restorer.  `TypeNext` also sorts the steps into four
kinds, by what they do to the stack: `SameStep` (the top frame moves on),
`LeapStep` (longjmp), `EnterStep` (a handler begins), `ReturnStep` (sigreturn).  The
invariants are then about what was put aside in the frames, which is why the
properties, which speak of the top frame or of main, are not inductive by
themselves: `MasksInv` relates the mask put aside for every frame to the handlers
up to it, `EntryInv` keeps every active handler's signal in every mask put
aside above it, and `ErrnoInv` looks, for each frame, at the errno it will find
when the handlers above it have returned.  None of the assumptions can be left
out: handlers that unblock their own signal, or do not save errno, break the
properties with any C library, and sigpending does not follow the errno protocol
when its pointer is bad (section 11).

**`DCacheProofs`**

| theorem | under | property |
|---|---|---|
| `TypeCorrect` | | `TypeOK`: also, only valid lines are dirty, and a flush starts with its counters at 0 |
| `NothingIsLost` | | `NothingLost`, until the first misuse |
| `ReadsAreCurrent` | | `ReadsLastWrite`, until then |
| `FlushesAll` | | `FlushWritesAll`, until then |

They hold for every size of the cache and every set of requests, and have no
assumption on the processor: the properties themselves say up to when they speak
(`misuse = {}`), and `Sound` is the invariant with that condition.  `NothingLost`
speaks of the time between requests and is not inductive: the controller marks the
victim valid a step before it has the new line.  `LinesInv` says the same at all
times of the ways that are `Settled`, which leaves that one way out.  What a request
has established before it gives a line up is in two parts: `Missing`, that no way
has the line of a miss and the victim is in memory by the time it is overwritten,
and `AtomicSafe`, that the line of an atomic operation is either in one way, and in
memory before the operation begins, or in none, with way 0 clean.  `Asked` says that
without misuse no strobe is missed and a flush carries no store.  `Flushed` says
that the ways a flush has passed are clean, and all of them when its counters are
back at 0; with `LinesInv`, clean and uncached lines being in memory,
`FlushWritesAll` follows.

**`LsofProofs`**

| theorem | under | property |
|---|---|---|
| `TypeCorrect` | `EnoughRows(m, f)` | `TypeOK`, in particular that no row is written behind `ansarr` |
| `WalkIsFaithful` | `EnoughFds` | `Faithful` |
| `FiltersAreExact` | | `ShownExactly` |
| `NodesAreReal` | | `NodeReal` |

They hold for any number of processes, files and changes.  `EnoughRows(m, f)`: there
are m areas of memory and f descriptor numbers at most, and the array has 3 + m + f
rows for each pid.  `Room` counts the rows behind the ones written that each phase
of the walk may still need; without the assumption the array overflows, since
nothing in hw1.c looks at its length.  `EnoughFds`: the limit leaves two descriptors
for each pid and two to work with, which `Kept` counts along the walk;
`lsof_limit_finding` has one less.  `Faithful` speaks of the end of the walk.
`RowsRight` says what the rows of an undisturbed process are at each moment: none
before the walk comes to it, those of the phases it has been through while it is
there (`Progress`), and all of them afterwards (`Complete`).  These are the rows of
the code (`CodeRows`); `Agree` is the lemma that they are those of HW1/README.md but
for strange files.  For this `Handles` is needed, that the open handle belongs to a
process that lives, or is `stale`; and that the walk passes over no pid, which holds
because both directories are read in order (`p > pid`, `n > fd`).

**`HijackProofs`**

| theorem | under | property |
|---|---|---|
| `TypeCorrect` | | `TypeOK` |
| `LinesNameTheFile` | | `NamesTheFile` |
| `ErrnoIsKept` | | `ErrnoKept` |
| `LoggerTransparent` | `Counts \subseteq 0..IntMax`, `"close" \in AnyResult` | `Transparent`: the logged program implements `FileCalls` |

They hold for every set of paths, files, descriptors and calls.  `NameInv` says what
a name that was looked up before the call still says when the call has been made,
unless somebody else changed a name meanwhile; `Complete` that it is whole where
`fdpath` can hold it.  The refinement maps the places of a wrapper to those of the
plain call (`idle`, `asked`, `done`) and leaves the log's text out of the files.
The step it adds to the plain program is the end in a call that overruns.  Its
assumptions are two things that the wrappers do to results: counts are cut to an
int, and close returns nothing.

**`RDataFeederProofs`**

| theorem | under | property |
|---|---|---|
| `TypeCorrect` | | `TypeOK`: the read address never passes the length asked for, and no write goes behind a buffer |
| `SumsEachProduct` | | `DotProduct` |

They hold for every buffer length, every latency of the unit and every number of
rounds.  `Filling` ties the writing machine to what the processor has written,
`Summing` the summing machine to the unit and to the bound it reads up to: it goes
at most one entry past what has been written.  `SumInv` then says, as long as
nothing was read too early, which products are in the sum at each state of the unit.

**`MemPathProofs`**

| theorem | under | property |
|---|---|---|
| `TypeCorrect` | | `TypeOK`: in particular no FIFO ever holds two items |
| `DoneOnce` | | `EachOnce` |
| `FetchesAreCurrent` | | `FetchCurrent` |
| `ScNeedsLink` | | `ScNeedsLr` |

They hold for any number of cores, lines and words, and for every interleaving of
the two clocks and of the FIFOs.  The inductive invariant gives each of the two
channels one of five stages: `Idle`, `Descends` (its signals are in FIFOs or in the
registers behind them, in any combination), `Served` (the arbiter holds all of it),
`Returns`, `Ascends`.  A stage says where each part of the request is, that nothing
is left of earlier ones, and what memory is: before, or with the effect of the one
access (`Pending`, `Effect`).  `UnitInv` says the same of the two accesses of an
atomic operation.  `EachOnce` compares memory at the answer with memory when the
request was made, and follows since an answer is only given in stage `Ascends`.

**Only model-checked.**  `LoopReturns`, `Terminates`, `Computes` and both
properties named `Answered` are liveness, which is out of the prover's reach.
`ListedOnce` is checked by TLC only.  Every other property of a passing run, both
refinements among them, is a theorem.  The findings are counterexamples.

## 11. Findings and other disagreements

Three of the disagreements have a run that TLC refutes, with a shortest trace; (*)
marks, here and below, what was also reproduced by running the code.

| run | what happens |
|---|---|
| `lm_longjmp_finding` (*) | longjmp passes the mask where a pointer belongs: the mask setjmp saved is not restored (HW3/README.md:40) |
| `lsof_limit_finding` | the cmdline descriptor and the maps stream of every process stay open; at RLIMIT_NOFILE the failures are listed as "(Permission denied)" (HW1/README.md:100) |
| `dcache_amo_finding` | an atomic operation on a line that is not cached clears VALID and DIRTY of way 0 of the set: a dirty line is lost (dcache.v:18) |

The models hold more of the kind: in actions that passing runs take, or as what a
property leaves out by name.

**sdb.**
`delete -1` passes the only check (hw4.c:451): the POKE through the word in front of
the array fails unseen, slot 0 moves into that word, and its breakpoint is off the
list and still in the program; HW4/README.md:43 asks for deletions of non-existing
breakpoints to be handled.  A second `delete -1` finds it there and restores its
byte, under a breakpoint that may have been set anew (`DeleteStray`, `Delete`,
`NoneMovedOut`).
The 257th breakpoint is written behind `bpoint_arr` (hw4.c:822, `BreakOverflow`).
Any stop under cont, by whatever signal, gets rip moved one byte back (hw4.c:552,
`BackedUp`).
"run" from state LOADED ends the debugger when the program exits
(`RunFromLoad`; HW4/README.md:82-84 shows a session going on).
cont from a breakpoint on the exit call ends it with `waitpid` (`StepOverDone`).
A program with an int3 of its own is never continued past it; the theorems about
`Tame` programs exclude it.
load reports a missing file as loaded, and the first start dies in an assert.
disasm below .text is not refused (HW4/README.md:44); it reads 144 bytes and
decodes 150; and a listing that comes to bytes that do not decode just ends.
vmmap shows a mapping without a file under the name of the line above it, and
crashes when the maps of a killed child cannot be opened (`gdbvmmap`).

**libmini.** `longjmp(env, 0)` can make setjmp return 0 (*): val is an int, the
comparison with 0 looks at all 64 bits of rsi (libmini64.asm:191, `Returned` with a
word of `Vals` whose lower half is 0), whose upper half the caller leaves undefined;
jmp1.c:28 tells the second return by `!= 0`. perror with a prefix, after an error
above 34, checks the errno its own writes have reset and indexes its table with the
one it saved (libmini.c:251): it reads past the table (*), `PerrorMessage`;
HW3/README.md:19 promises the interfaces of the standard library, which prints
"Unknown" as line 245 means to. `sigaction(sig, NULL, &old)` writes through NULL (*)
(libmini.c:306, `SigactionQuery`). sigaddset, sigdelset and sigismember take any
number (libmini.c:337-363): 0 stands for signal 64 and 65 for signal 1, and
sigaddset returns 0 for both. sigpending answers the kernel's negative number and
sigprocmask a positive one, both without errno (*), so that `perror` after them, as
in alarm2.c:10, reports an earlier call. signal() sets SA_RESTART in the action it
reads into, not in the one it installs (*), so that interrupted reads fail with
EINTR (`SignalAct`).

**lsof clone.**  What follows are the exceptions of `Faithful` (`Strange`) and
`ListedOnce` (`InARow`), and the rows `Expected` takes over from the code. A deleted
mapping is shown as mem, since the %s of sscanf ends at the blank before "(deleted)"
(hw1.c:372), and DEL is given to other files with "deleted" in their names, which is
removed from them (382); HW1/README.md:68 asks for DEL after a mark. The mark of a
deleted directory or open file stays in its name (318, 463), against
HW1/README.md:101. The mode of a descriptor is that of the owner's permissions
(441), not that it was opened with (HW1/README.md:71-73), and a file the owner may
neither read nor write is not listed at all (444; HW1/README.md:46). An open block
device is "unknown" and has no NODE (203; HW1/README.md:92). A file mapped on both
sides of another is listed twice, since only the inode of the row before is
remembered (373; HW1/README.md:66). A kernel thread's COMMAND is "." (268;
HW1/README.md:27, 49), and its exe, which does not exist, is "(Permission denied)"
(320; HW1/README.md:100). The TYPE of a NOFD row is whatever malloc left
(`Leftovers`), and is what -t looks at. The owner is a number when /etc/passwd
cannot be opened.

**File logger.**
close has no return statement: the program gets what fprintf left in the register,
the number of characters of the line, which itself shows 0 (hijack.c:128,
`Returned`; HW2/README.md:8).
Names of descriptors are cut to the eight bytes of a pointer (22, `fdpath`), where
HW2/README.md:34, 52 show the whole of them, and every path to 32 bytes (54,
`safestr`), which HW2/README.md:33, 37 ask for character buffers only.
Data of 1024 bytes or more without a zero are copied past the end of a local array
(49, `Smash`), and the program may end; the sample of HW2/README.md:119 reads 2319
bytes and goes on.
The line of `fclose(stderr)` is lost (HW2/README.md:84-85); after close(2) and open,
the lines go into the file that took descriptor 2 (`Log`).
read, write, fread and fwrite return their count through an int (hijack.c:213,
301, 403), so that 2 GiB and more come back as another number (`Narrow`); the
refinement is proved, and run, without such counts.
The wrappers that resolve a name after the call leave realpath's errno (`Resolve`).
The flags of open are printed as decimals (HW2/README.md:35 shows octal ones).

**RDataFeeder.**
The reader overtakes a writer that is slower than the unit (RDataFeeder.v:177), and
the sum then has a stale product in it (`overrun`); the comment of line 90 calls the
register the upper bound of reading.
A read before DONE is never answered later, only ignored (line 130): `Program`
waits for ever there, and `Computes` says that DONE comes.
A length of 0 or beyond the buffers never finishes (`Targets` excludes both).

**Data cache.** p_strobe_i is one cycle long (core_top.v:420) and looked at in Idle
only (dcache.v:246), and nothing holds data accesses back during a flush
(core_top.v:321). A load that comes then is answered by the p_ready_o of the flush's
end (514) with 0 (508), and a store by the same signal, and written nowhere
(`Missed`, `AnswersMissed`); dcache.v:79 says of p_ready_o "The cache data is
ready."  One that comes in the flush's last cycle is never answered (`LateMissed`).
The code that accesses memory then is in the local memory, since the instruction
cache waits for the flush. decode.v:407 makes fence.i a store: one whose rs1 points
into cached memory stores what it hits, with its tag, into the set the flush begins
with (dcache.v:326-331, 626; `FlushAt`, `StartFlush`).

**Memory path.**
The type of an atomic is bits 31 to 27 of whatever instruction is in decode
(decode.v:239), so that a plain access carrying those of LR sets a reservation when
it reaches memory.  Then SC can succeed without an LR of its own after the last
write: LR x, a handler's store to x, eviction of the line, a load of x whose
instruction has those bits, SC x.  `ScNeedsLr` excludes it (`linked = "stray"`).
rm_reservation has no effect, as every completed access rewrites every
reservation; the state Wait of the atomic unit is there because the crossing
takes a strobe once (atomic_unit.v:13-16), which the mutant `NoWait` shows.

## 12. Not modelled, and why

- sdb: help and list, which only print; data registers of the child; programs
  that write their own text; threads; words past the end of a mapping, except in
  `SdbView`.  `TextStart` and `TextSize` are taken from the ELF header as the code
  reads it.  dump's memcpy past `ret` (hw4.c:390) is taken to land in the next local.
- libmini: the words of a sigset_t, which sigaddset and its kin shift and mask;
  elapsed time, hence what alarm and sleep
  return; open's variadic argument; strlen and the other pure helpers; real-time
  signals, threads, and more than one pending instance of a signal, which the
  kernel does not keep for standard signals.
- lsof clone: layout of the output; regular expressions, which are sets of the
  strings they match; overlong command lines, copied without a check; names of files
  with blanks, other than the mark of a deleted one.
- file logger: logger, the script that sets LD_PRELOAD; stdio's buffers; the
  characters isprint filters; paths of 1024 bytes and more.
- data cache: byte masks and the sizes of accesses; memory path: byte masks, the
  reordering of a line's words, eight of the nine operations of the atomic ALU.
- instruction cache: the miss path is two states, external to `MemPath`; a flush
  during a fetch is planned.  branch predictor and pipeline: mostly tables and
  datapath supplied by the course; candidates are bpu.v and pipeline_control.v.
- the cache variants of homeworks/HW3 change the victim of the same controller.
- UART, SoC top, simulation stimuli: wiring and stimuli.  `DataFeeder.sv` is
  superseded by `RDataFeeder.v`.  The floating point core, its netlists and the
  simulator's xsim_*.c are generated.  Notes and slides are no program.

Some hazards in `PROJECT.json` have no property, with a note that says why: the code
gets them wrong whenever they occur, so that nothing holds to be checked.  So it is
with four more that are modelled and only named here: the single step over a
breakpoint may end the child (hw4.c:536, `StepOverDone`); errors of sigprocmask and
sigpending leave no errno (libmini.c:293); SA_RESTART goes to the wrong action
(libmini.c:278); safestr copies before it cuts (hijack.c:49, `Smash`).

## 13. Plan

| step | modules | content | state |
|---|---|---|---|
| 1 | Sdb, SdbTransparent, SdbProgram, SdbProofs, SdbView | the debugger | done |
| 2 | LibMini, LibMiniProofs | signals, jumps, errno | done |
| 3 | Lsof, LsofProofs, FileCalls, Hijack, HijackProofs, RDataFeeder, RDataFeederProofs | the other programs | done |
| 4 | AtomicUnit, CdcSync, MemArbiter, MemPath, MemPathProofs | the memory path | done |
| 5 | DCache, DCacheProofs | the data cache, and its properties for every size up to the first misuse | done |
| 6 | SdbViewProofs | what is shown, for every word size and mapping | done |
| 7 | instruction cache, branch predictor, words of a sigset_t | | not begun |

## 14. Running

In this directory: `tlc -config Sdb_any.cfg MCSdb`, `tlc -config MemPath.cfg
MCMemPath` and so on (section 9 has the module of each run; `mempath`, `dcache`,
`lm_signals` and `sdb_tame` take one to two minutes on two cores, the others less
than one), and `tlapm M.tla` for each of the modules `SdbProofs`, `SdbViewProofs`,
`LibMiniProofs`, `LsofProofs`, `HijackProofs`, `RDataFeederProofs`, `DCacheProofs`
and `MemPathProofs`, a few minutes each at most.
