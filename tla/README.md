# nesemu in TLA+

Specifications of nesemu, a NES emulator in C++ (`lib/`, `include/`, `app/`):
what is modelled, how the models correspond to the code, what TLC checks and what
TLAPS proves. `PROJECT.json` maps every definition to its source lines and lists
the runs, the mutants that each property detects, the findings and the hazards.

## 1. The system

nesemu is one thread. Its hard parts are not threads but two programs that share
one CPU: the cartridge's main program and its NMI handler, interleaved cycle by
cycle by one of two drivers, the main loop or the debugger.

| Part | State | Operations | Talks to |
|---|---|---|---|
| CPU (`lib/cpu`) | `PC_ SP_ A_ X_ Y_ P_`, `cycles_todo_`, 2 kB RAM | `cycle`, `trigger_nmi`, `advance_*`, `read`, `write` | PPU, controller, cartridge through `read`/`write` |
| Stack page (`cpu.cpp`) | `SP_`, page 1 | `push_stack(16)`, `pop_stack(16)` | RAM; at `SP_ = 0` also 0xFFFF and 0x0000 |
| Decoder, ALU, tables | none of its own | one effect per opcode; `cycle_count`, `byte_count` | CPU registers and bus |
| Main loop (`cpu.cpp`, `alu.cpp`) | position in the frame | `begin_cpu_loop`, `advance_frame` | CPU, PPU, GLFW |
| PPU (`lib/ppu`) | `PPUCTRL_ PPUMASK_ PPUSTATUS_ PPUADDR_`, name tables, palette | register reads and writes, `render_to_*` | written by programs, sampled by the driver |
| Controller | strobe, shift register | `write_strobe`, `read_joy1` | programs, keyboard |
| Cartridge | PRG and CHR bytes | loader, `cpu_read`, `cpu_write` | CPU |
| Debugger | breakpoints, `cycles_todo_in_frame_`, the command that runs | `step`, `continue`, `break`, `delete`, `clear`, `read`, `write`, `set`, `exit` | CPU internals, PPU |
| Number parsing (`lib/util`) | none | `parse_num`, `extract_num` | debugger |
| `app` | none | options, window; `test-cpu.cpp`, the CPU's unit tests | all |

What makes each part correct, and what could go wrong:

* **Stack**: whatever was pushed is what is popped, in any mixture of bytes and
  words, through wrap-around; a wrong word is complained about.
* **CPU**: NMIs are transparent. They arrive at any cycle, also inside an
  instruction, inside a handler, with `cycles_todo_` anything; the program must
  neither skip nor repeat an instruction and its stack must be intact. An
  exception half-way through an instruction leaves nothing half done.
* **ALU**: single instructions are right when the numbers they are chained into
  are right: carries and borrows passed on through other instructions and NMIs.
* **Main loop**: handlers do not pile up; no NMI reaches a program that has not
  asked for it (`PPUCTRL_` is uninitialised memory); a program that polls
  PPUSTATUS is answered although the handler clears the same flag.
* **PPU memory and controller**: both are shift registers, or latches, that program
  and handler share and that a power-on leaves undefined: the palette and the button
  presses a program works with are those written and held.
* **Cartridge**: what is not a whole iNES file for mapper 0 is refused, and a program
  in a file that is accepted is found where it was linked to.
* **Debugger**: a breakpoint pauses before its instruction, a step is one
  instruction and returns, the program does not notice, and the numbers, the
  breakpoints and the memory are what the user typed.

`PROJECT.json` "hazards" lists the places in the code.

## 2. Modules

There are two models of the CPU. `Cpu` keeps what decides in which order things
happen (program counter, stack, cycle counter, interrupt bits) and leaves the
values open, so that every interleaving, any client and any program can be explored
and proved about. `Machine` is the same CPU to the byte, driven by real programs.

```
orders of events                             bytes
----------------                             -----
Stack - StackUse - MCStackUse                Alu   Isa        Ppu  Joypad  Mapper
  |  `- StackLemmas - StackUseProofs          |     |           `----+----'  |
  |                                           |     |               Bus      |
  Cpu ---- refines Thread                     |     `-------+--------'       |
  |- Flow - Listings - MCCpu                  +-------- Machine          Cartridge
  |    |- CpuProofs                           |           |  `---- Emulator -'
  |    `- Console - MCConsole, ConsoleProofs  |           |           `- ColorTest - MCColorTest
  `- Debugger - MCDebugger, DebuggerProofs    |           |- Commands (Numbers) - MCCommands
                                              |           `- Units (Script, Units*) - MCUnits
                                              |- Wide - MCWide, WideProofs
                                              `- AluProofs - WideProofs, MachineProofs

             MachineProofs: of Machine, Emulator and Commands
```

### Orders of events

**Stack** - operators on a record `[sp, mem]`. A byte has `W` values (256 in the
code) and an address `W*W`. `mem` has the `W` cells of page 1 and two more, for
what `0x0100 | (SP_ - 1)` addresses when `SP_` is 0: 0xFFFF (`Top`) and, one on,
0x0000 (`Zero`). A word pushed there writes its low byte into the cartridge and
its high byte nowhere, because `CPU::write` answers false for cartridge space and
`write16` is `write && write`.

**StackUse** - any client: all orders of the four operations. `live`/`depth` is
what the client may still expect, `warned` that the log said something was wrong.

**Cpu** - `cycle()` is `Fetch`, `Wait` or `Finish` by `cycles_todo_` = 0, > 1, 1;
`trigger_nmi()` is `TriggerNmi`. `trigger_nmi`'s loop of `cycles_todo_ - 1`
cycles consists of `Wait`s only, so it is one assignment: it brings the counter
to 1, does *not* execute the instruction, and the cycle that is left over goes to
the handler's first instruction, which therefore executes in its first cycle. `Execute`
has one disjunct per kind of effect on what is kept:

| Kept | Abstracted to |
|---|---|
| `PC_`, `SP_`, page 1, `cycles_todo_` | themselves |
| `P_` | N and B; a byte with N on top and B at the bottom |
| `X_`, `Y_` | `idx`: large enough to carry an operand near the end of a page over it |
| `PPUCTRL_`, `PPUSTATUS_` | their bit 7 |
| `A_`, memory, C Z I D V | any value: data instructions set N freely, branches on other flags go either way |
| code | a function from addresses to instructions with kind, length, cycles, operand |

`p` starts with B set, as `P_ = 0x34` does. `frames`, a history variable, records
the contexts that unfinished NMIs interrupted.

**Thread** - the abstract specification of a program that nobody interrupts: whole
instructions, a stack that is a sequence, no cycles. `Cpu!Uninterrupted` says that
the CPU, with handlers hidden (`Base` is the context the outermost NMI
interrupted), implements it.

**Console** - `begin_cpu_loop` and `advance_frame` as a counter `left` per
`advance_cycles` call: `Run` is one of its iterations, `Render` and `Interrupt`
are what happens between the calls. `Crash` is the exception for an invalid
opcode, which nothing catches; `Close` the window callback, which exits.

**Debugger** - each command is an action that starts it; `step` and `continue` then
run `smart_execute_cycle` as `EndFrame` (when `cycles_todo_in_frame_` is 0) and
`RunCycle`. `inCycle` and `crossed` are that function's position and result;
`steps`, `opcode`, `i` are `cmd_step`'s locals; `ran` and `aligned` are history.
`StepDone` evaluates `cycle_count` with the opcode read at the start and the
operand at the present `PC_`, as the loop condition in the code does.

**Flow** - certificates of programs. A position is an address with what the code has on
the stack there, byte by byte: return addresses are known, other bytes may be anything. A
set of positions that no instruction leaves (`Closed`) bounds what a program and its handler
push and pull (`KeepsStack`), and with a rank on it the cycles to the end of a stretch
(`Bounds`). These are finite checks on the listing; what they mean for the machine with NMIs
at any cycle is a theorem. Nothing in the code corresponds to it: it states what the code's
client, the cartridge, has to do for the properties to hold.

**Listings** - an assembler for the checked programs, which also computes their
certificates: the shape of
`vendor/color_test_nosprites` (`Polling`), a loop that waits for every frame
(`Waiting`), subroutines in program and handler (`Calling`), BRK (`Breaking`).

### Bytes

**Alu** - what each instruction makes of a byte and the flags; `P_` is the set of
flags that are set, `StatusByte` and `Flags` its form on the stack.
**Isa** - opcode, mnemonic, addressing mode, length and cycles, from the tables.
**Ppu**, **Joypad**, **Mapper** - records, with an operator for each register access.
What the constructors leave uninitialised is a set (`PpuPowerOn`, `PadPowerOn`).
**Bus** - `read`, `write`, `read16`, `write16`: every access returns the bus after it,
because reads of PPU and controller have effects; `thrown` is an exception of Mapper0.
After one every access does nothing.
**Machine** - addressing modes, the stack to the byte, `cycle_count` with the reads it
makes, one action per family of instructions, `cycle()`, `advance_instruction()`,
`trigger_nmi()`. The code undoes nothing when an access throws, and neither does the model:
an instruction is a sequence of accesses and assignments in the code's order, `GoingOn`
leaves out what comes after the access that threw, and `Caught` keeps what came before it,
registers, flags and memory alike.

**Wide** - a calculation on a number of several bytes, as programs make it: one ALU
instruction per byte, other instructions and NMIs in between.

**Script**, **UnitsArithmetic**, **UnitsLogic**, **UnitsMoves**, **UnitsFlow** -
`app/test-cpu.cpp` as data: each TEST_CASE is a set of pairs of a cartridge and a
script (advance, poke, look). Where a test generates its inputs over a range, the
script takes the edges of the range. **Units** runs them, with an NMI at any moment.

**Cartridge** - the constructor from a file: its reads of the stream one after the other
(`ReadHeader`, `ReadTrainer`, `ReadPrg`, `ReadChr`), each of which fails when the file ends
in it or an earlier one has failed, and each but the trainer's checked; then the mapper
number (`ChooseMapper`). What a good file is (`GoodFile`, `PrgOfFile`) is said by its length
and layout as a whole.
**Emulator** - `main` from the file on, `begin_cpu_loop`, `advance_frame`, with keys
that change where GLFW is polled. **ColorTest** - the demo program of `vendor/`, cut
down, and linked to the last bank.

**Numbers** - `parse_num` on characters, with `strtol`'s base 0.
**Commands** - `read_command`, line by line: each command's whole effect on registers,
memory and breakpoints. `step` and `continue` only note what was asked: running is
`Debugger`'s subject.

Definitions whose comment begins "Mutant of" are plausible slips in the code; each
property has one that it detects (`PROJECT.json` "mutants"). The specifications do
not use them.

## 3. Runs

| Run | Shows | Bounds |
|---|---|---|
| `stack` | bytes and words come back in order; a wrong word was complained about | page of 6 bytes, 2 data bytes |
| `cpu` | its programs keep their stack (`StackKept`), as their certificates say (`StackAssumption`); what an NMI pushes an RTI pops; a handler's RTI restores its context; NMIs transparent, with any client | page of 16, NMI depth 2, four programs |
| `console` | no nested NMI, none unasked for, polls answered, NMIs transparent | page of 10, frames of 15 + 7 cycles, warm-up 12, handlers of 17 to 20 cycles |
| `debugger` | breakpoints, steps, NMIs transparent under any commands that edit no register and no stack byte | page of 12, frame of 13 cycles, 1 breakpoint of 2 addresses, steps of 1 or 2 |
| `debugger_edits` | types hold and steps return when the user sets any register or writes the stack | page of 12, frame of 9 cycles, two values, one larger than a byte |
| `wide` | addition, subtraction, comparison, doubling and halving of numbers are exact | 2 bytes of 6 values at the edges of carry and sign; NMIs unbounded |
| `units` | types hold; the unit tests' REQUIREs hold on the model, with an NMI anywhere too; an instruction that throws has done nothing before it did; `advance_instruction` ends between instructions | all tests, one NMI each; 15 programs that end in exceptions or never, for 40 cycles |
| `color_test` | palette and button presses of a whole machine; the loader refuses bad files, and only those; types hold | 4 frames, registers 0 or 0xFF at power on, 3 sets of keys, 3 good and 18 bad files |
| `commands` | numbers typed are numbers meant; breakpoints and RAM are what the lines say | 3 lines; the last any of the commands with any token of up to 3 characters from 8, or one of 10 longer ones |
| `debugger_step`, `debugger_poll`, `units_indirect` | the code differs from what a comment or help text says (section 6) | as above |

Why the bounds are enough. `W` only has to leave room for the programs' stack
use and, in `StackUse`, to keep the cells next to a wrap-around distinct. Frames
are a few instructions long, so that a frame boundary falls on every cycle of
every instruction, of the program and of the handler; the real 27393 + 2273 cycles
would shift the same alignments. `Longest` caps instructions' cycles at 3, 5 or 7;
it still leaves `Fetch`, several `Wait`s and `Finish` to be cut. `MaxNest` 2 is where a nested NMI
first shows; when the console reaches it the model blocks rather than hides it.
In `Console` frames are longer than any handler, as real ones are. That is a
precondition of `NoNestedNmi`: the property is about the timing of the loop. The
warm-up of `Console` is likewise long enough for the programs to write PPUCTRL, as
29780 cycles are. In `Cpu`'s programs and in the tests code is not overwritten and the
stack page is touched with stack instructions only; the debugger may write to it.

The values in `Machine` are not scaled: bytes have 256 values and addresses 65536. What
is bounded is the programs. In `color_test` a frame,
100 + 300 cycles, is longer than the handler, as a real one is, and the first NMI falls
due while the program loads the palette, with the NMI switched off; the
warm-up is long enough to switch it off, as 29780 cycles are. A press, its release and
the next press need three NMIs, which 4 frames have. One NMI in `units` is
enough for each position in a test; two in a row are `cpu`'s subject. A breakpoint needs
two lines to appear and to go, the third is every command that could do it by mistake.

**Deadlock** is checked in every run. `Console`, `Debugger`, `Emulator`, `Units` and
`Commands` have an explicit stuttering step once the process, the run or the test has
ended; `Wide` always has an interrupt to take.

**Fairness.** `Console!FairSpec`: weak fairness of the loop's own steps; it is a
single thread that waits for nothing but the clock (`sleep_until`). Not for
`Close`, which is the user's. `Debugger!FairSpec`: weak fairness of `Machine`, a
command that was given; none for the user, who may stay silent. GLFW and the
standard library are assumed to return.

## 4. Proofs

All for every `W` (even, at least 4), every set of cartridges, every frame length
and every choice of the other constants, under the named assumptions, and for every program
with the certificates that a theorem names; those about
`Alu` and `Joypad` for all bytes, flags and keys; those about `Wide` for numbers of any
length; those about `Machine` for every program in every cartridge. The assumptions
say of what kind a constant is: a header's bytes are bytes and there is some PRG
(`FilesAssumption`), the registers at power on hold a value (`EmulatorAssumption`), what
is typed is lines of tokens of characters (`TypedAssumption`), the debugged CPU was built
on a bus (`BusesAssumption`).

| Theorem | Argument |
|---|---|
| `StackUseProofs`: `StackTyped`, `LiveBytesAlwaysStored`, `PopsAlwaysRight`, `WrongWordAlwaysReported` | `LiveBytesStored` with the types is inductive: `RingArithmetic` says which distance from `SP_` a byte has after a push or pop. The two others follow from it. |
| `CpuProofs`: `CpuTyped` | the type invariant is inductive, one case per kind of instruction; `WordSplits` and `WordJoins` are the arithmetic of `read16` and `write16`. It includes that `cycles_todo_`, an unsigned, is never decremented at 0. |
| `CpuProofs`: `NmiAlwaysSavesContext` | `StackLemmas!InterruptRoundTrip`: a word and a byte pushed are popped in reverse, `SP_` is restored, nothing above it changes. It needs `SP_ >= 2`. |
| `CpuProofs`: `StackAlwaysKept`, `CertifiedProgramsRun` | `Disciplined` is inductive: the program and every handler begun are at a position of their certificate, their bytes lie on the stack as the position says, and there is room for the handlers still to come. A handler's RTI finds the interrupted code where it was because its bytes were kept (`FramesKept`), and `FramesKept` needs `StackKept`, which follows from `Disciplined`: the two are one induction. With `StackKept` a theorem, those below hold of certified programs without a condition on the behaviour. |
| `CpuProofs`: `FramesAlwaysKept`, `HandlersReturn` | `FramesKept`, under `StackKept`: every context that an NMI interrupted lies whole on the stack, the outer ones above the inner ones. No instruction changes a byte above `SP_` (`AboveSpKept`), and a handler stays below what its NMI pushed. |
| `CpuProofs`: `NmisAreTransparent` | the refinement of `Thread`. Without a handler running each instruction is `Thread`'s (`InstructionIsThreadStep`; `PushSequence`, `Push16Sequence`, `PopSequence` in `StackLemmas` turn the page into a sequence); an NMI, its handler and its RTI leave `Thread`'s state alone (`NmiIsNotSeen`, `HandlerIsNotSeen`), the RTI by `FramesKept`. |
| `ConsoleProofs`: `ConsoleIsTransparent`; `DebuggerProofs`: `DebuggingIsTransparent` | the same for the main loop, and for the debugger with users who change neither a register nor the stack: they only execute, interrupt, or leave the program alone (`ProgramStep`). |
| `ConsoleProofs`: `ConsoleImplementsCpu`, `ConsoleTyped` | each step of the main loop is a step of `CpuSpec` or a stutter, so all that is proved of the CPU with any client holds in the console. |
| `ConsoleProofs`: `NmisOnlyWhenAsked` | from a certificate that the program comes to its write of PPUCTRL, through calls and branches, in the cycles before the first NMI (`AsksInTime`). While it has not, it is at a position of the certificate and no further away than the NMI is (`OnItsWay`): a cycle brings both nearer by one (`TimelyNext`), and with the NMI due nothing can have cycles left (`NotDue`). |
| `ConsoleProofs`: `NmisNeverNest`, `TimelyProgramsRun` | from a certificate per handler, of its stack and of the cycles to its RTI, subroutines included (`HandlerFits`). The handler that runs is no further from its RTI than the next NMI is (`Returning`), and which RTI, or RTS, it comes to is known only while the stack is as the certificate says, which in turn needs that no second NMI came: so time and stack (`Disciplined` with one NMI) are one induction (`FitHolds`). The first of its instructions may have one cycle only, the last of the one the NMI cut short (`EntersInTime`): hence the `<`. |
| `DebuggerProofs`: `DebuggedProgramsRun` | `Disciplined` again: a command executes, interrupts, or leaves program and stack alone (`DebugStepEnters`), for users who set no register and write no stack byte. The model bounds how deep NMIs nest. |
| `DebuggerProofs`: `DebuggerTyped` | the types are not inductive alone: a running step must have an instruction left (`DebuggerInv`). |
| `DebuggerProofs`: `BreakpointsAlwaysPause` | `CheckedBefore`: while a cycle runs for `continue`, `PC_` is at no breakpoint or an NMI has just put it at its handler. |
| `DebuggerProofs`: `PlainStepsAreOneInstruction` | `StepInv` counts: of the cycles the step has given, how many the instruction has had. It needs that nothing is edited while a command runs (`CheckedBefore`), and not that nothing was edited before. |
| `AluProofs`: `AdditionKeepsCarry`, `SubtractionLeavesBorrow`, `OverflowIsSignedOverflow` | the code's expressions on `uint16_t` and on sign bits against arithmetic on integers: byte and carry together are the sum, V says that the signed result does not fit. |
| `AluProofs`: `StatusSurvivesStack`, `RotationsUndoEachOther` | the eight flags as digits of a byte; what goes into the carry comes back from it. |
| `WideProofs`: `AdditionAlwaysExact`, `SubtractionAlwaysExact`, `ComparisonAlwaysOrders`, `DoublingAlwaysExact`, `HalvingAlwaysExact`, `WideTyped` | an invariant about the bytes done so far: their value and the carry, at its place, are the sum (difference, order, double) of the operands' bytes done so far. One byte more is `AluProofs`' theorem on the instruction; what programs and NMIs do in between keeps the carry. Halving goes from the top and has the quotient's bytes and the remainder. |
| `MachineProofs`: `MachineAlwaysTyped` | for `AnyProgram`: a machine on any bus, clocked and interrupted at any time, while between calls frames are rendered, bytes written and registers set. One lemma per access to the bus, per addressing mode and per family of instructions. It includes that `cycles_todo_` is at most 8, and that every table is asked only about modes it has. |
| `MachineProofs`: `ExceptionsAlwaysClean` | an instruction makes the accesses that may throw before it changes anything (`Clean`), with one exception, JSR, which pushes before it reads its operand. That read cannot throw: its opcode would have to be in the two bytes below 0x4020, where the bus floats at 0xAA, or above, where its own read throws (`FloatingBus`, `CalledClean`). |
| `MachineProofs`: `InterruptsComeBack`, `CallsComeBack`, `BytesComeBack` | the stack operators on RAM, cell by cell (`PushWordStores`, `PullWordYields`), for every `SP_` but 0, wrap-around included: the machine to the byte has the round trips that `Cpu` abstracts to. |
| `MachineProofs`: `FilesAlwaysJudged` | `LoadInv`: before each read, what has been read so far and what the checks passed so far say of the file's length (`Begun`); that PRG is the file's from its read on (`Found`, `AheadIsPrg`). Before the read of PRG the stream is good exactly if the file holds header and trainer: that is what the unchecked read of the trainer leaves to the next one. |
| `MachineProofs`: `EmulatorUsesMachine`, `EmulatorAlwaysTyped`, `EmulatorStopsClean`, `ProgramsFoundWhereLinked` | `EmulatorInv`: `LoadInv`, and there is a machine only where the loader is done. Inserting the cartridge is a power on of `AnyProgram`, each later step one of its steps, so what holds of any program holds of the window program. The addresses are the indices of Mapper0 and the offsets in the file, for one bank and for two. |
| `MachineProofs`: `StrobeLoadsKeys`, `ReadsInOrder` | the register as a sum of eight binary digits, of which each read takes the lowest. |
| `MachineProofs`: `SessionInvHolds`, `BreakpointsAlwaysAsTyped` | what one more line means for the breakpoints, as a definition on sessions (`IsSetByNext`) and as what the command does (`CommandOnBreakpoints`), is the same; for sessions of any lines and any length, whatever `parse_num` yields. |
| `MachineProofs`: `PromptKeepsTypes`, `WritesChangeOneByte` | each command on the types, for any number and any run of reads (`AfterReadsTyped`); a write is one `Poke`, of the cell that all mirrors of the address lead to. They need `SessionInv`, for the lines to be lines. |
| `MachineProofs`: `NumbersAlwaysAsWritten` | `Positional` takes digits from the left (`PositionalIs`); a numeral of up to four digits fits, so nothing is cut off (`ShortPositional`), and dividing gives its digits back (`HexPlaces`, `DecPlaces`). |

Inductions over data (the bytes of a number, the characters of a token, the reads of a
`read`) go through the least element of a set of counterexamples
(`AluProofs!InductionUpTo`, from the library's `NatLessThanWellFounded`), since the
library's induction rules take an operator that the provers cannot instantiate.

Only model-checked:

* That the runs' programs have certificates: TLC evaluates it on each run
  (`StackAssumption` in `MCCpu` and `MCDebugger`, `TimingAssumption` in `MCConsole`), and the
  theorems say what follows. A certificate takes both ways of a branch and the most cycles
  an instruction may last. It is stricter than it needs to be: a handler that uses the
  page's very last byte, with `SP_` passing through 0xFF and coming back, is served right
  and is not covered, and one of time has no room for loops that wait.
* With a user who sets registers or writes the stack (`debugger_edits`), only types and
  returning steps: a program's stack is then no longer its own.
* `AsExpected`, `AdvanceLeavesNothing`, `PressesCounted`, `PaletteAsWritten` and
  `RunsFromGoodFiles` are about particular programs, with their bytes.
* The liveness properties `PollAnswered` and `StepReturns`: fairness is out of the prover's
  reach.

## 5. Not modelled

* The picture: `render_to_framebuffer` is a pure function from PPU memory to 184 kB of
  colours, and OpenGL draws it. Its one effect on the program, the vblank flag, is in
  every model.
* What the debugger prints, the log, stream helpers, options, window set-up and real
  time (`sleep_until`): I/O, without effect on the state. The reads of memory that
  printing makes in `Commands`' `read` are modelled, because PPU and controller notice.
* A file whose header says no PRG at all, and reads below 0xC000 of a 16 kB program: the
  index is then outside the vector, which is undefined behaviour; the runs' files and
  programs stay clear of it. The theorems about any program let the model answer such a
  read with the filler: they say nothing of what the code does from there on.

## 6. What the models found

Runs that show a difference between the code and what is said of it:

1. `debugger.hpp:52`: a step over an indexed instruction may begin the next one,
   because `cycle_count` is asked again after `PC_` moved. Every later step is then
   out of alignment (`debugger_step`).
2. `debugger.hpp:126`: under `continue` a program that polls PPUSTATUS, and whose
   handler reads it, may wait for ever; in the main loop it does not (`debugger_poll`).
3. `decoder.cpp:58`: the cycle that (indirect),Y takes for crossing a page depends on
   bytes that have nothing to do with it (`units_indirect`).

Seen while modelling, without a run of its own:

* `alu.cpp:504` says that the program finishes its instruction before the interrupt; it
  does not, the instruction is started over. It is harmless (`Uninterrupted` and
  `AsExpected` hold), since instructions take effect in their last cycle, where
  `cpu.hpp:105` says they do so in the first.
* `cpu.hpp:225`: words pushed from 0xFD pass from 0x01 to 0xFF; the page is overwritten
  without a complaint, which only `SP_ = 0` draws.
* `debugger.hpp:57`: a breakpoint at the NMI handler's first instruction is skipped when
  the NMI cut an instruction short: hence `OutsideNmi` in the property's name.
* `decoder.cpp:146`: branches last two cycles, taken or not.
* SBC leaves the borrow in C and takes its complement from there: programs that chain it
  must invert C in between (`Wide`), which programs for the real CPU do not do.
* PLP sets Z and N by the byte it pulled, after pulling all flags.
* `advance_instruction` in the middle of an instruction runs what is left of it and part
  of the next; the tests never do this.
* `util.hpp:25`: parse_num takes "12x" for 12, "010" for 8, "$10000" for 0 and "-1" for 65535, so
  that `step -1` is 65535 steps.
* `write` in cartridge space reports a failure, but Mapper0 has stored the byte.
* The attribute table's address, 0x23C0 + i/16, runs beyond its 64 bytes, and colours
  above 0x3F are black.
* The loader keeps of the mapper number only whether it is 0, and refuses a file whose
  header byte 7 is anything but 0.
* `throw new cartridge_error` throws a pointer, which the debugger's catch of
  `std::exception` does not catch.

## 7. What is left

Certificates of time for handlers that loop. Transparency for a handler whose stack pointer
wraps and comes back. That `Machine`, on programs that leave their code alone, implements
`Cpu`: the two are joined by the round trips above and by the tests, not by a refinement.
