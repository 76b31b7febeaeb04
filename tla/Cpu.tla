-------------------------------- MODULE Cpu --------------------------------
(***************************************************************************)
(* The CPU as a client of its public functions sees it: cycle(), one clock *)
(* cycle, and trigger_nmi().  An instruction is counted down for as many   *)
(* cycles as it lasts and takes effect, whole, in its last one             *)
(* (lib/cpu/alu.cpp:494-511, lib/cpu/decoder.cpp).                         *)
(*                                                                         *)
(* Kept: the program counter, the stack page byte by byte, the cycle       *)
(* counter, the negative and break flags of P, the two PPU registers that  *)
(* control flow depends on (the NMI bit of PPUCTRL, the vblank bit of      *)
(* PPUSTATUS), and whether the index registers are large enough to carry   *)
(* an indexed address over a page, because that adds a cycle.  Abstracted: *)
(* A, the values in memory and the other flags, so a branch on another     *)
(* flag than N may go either way.  Programs reach the stack page only with *)
(* stack instructions and do not overwrite their own code.                 *)
(***************************************************************************)
EXTENDS Stack, Sequences

CONSTANTS
    Cartridge,   \* the cartridges that may be in the console
    Program,     \* what each holds: its code and its three vectors
    HasPpu,      \* FALSE in headless mode
    MaxNest      \* bound: NMIs whose handlers have not returned

Kind == {"plain", "data", "index", "status", "ctrl", "bpl", "branch", "jmp",
         "jsr", "rts", "rti", "brk", "pha", "php", "pla", "plp", "txs", "invalid"}

(* What the bytes at an address decode to: the effect of the opcode, its    *)
(* length and cycles, whether its cycles depend on the index registers, its *)
(* operand (a target, a byte for TXS, the NMI bit for PPUCTRL), and whether *)
(* the two bytes after the address, read as an operand, lie near enough to  *)
(* the end of a page that indexing may leave it.                            *)
Instruction == [kind : Kind, size : 1 .. 3, cycles : 2 .. 7, indexed : BOOLEAN,
                arg : Word, near : BOOLEAN]

ASSUME ProgramAssumption ==
    /\ \A c \in Cartridge :
         /\ Program[c].code \in [Word -> Instruction]
         /\ Program[c].reset \in Word
         /\ Program[c].nmi \in Word
         /\ Program[c].irq \in Word
         /\ \A a \in Word :
              LET op == Program[c].code[a]
              IN  /\ op.kind = "txs" => op.arg \in Byte
                  /\ op.kind = "ctrl" => op.arg \in {0, 1}
                  /\ op.kind \in {"pha", "php", "pla", "plp", "txs"} => op.size = 1
    /\ HasPpu \in BOOLEAN
    /\ MaxNest \in Nat

VARIABLES
    cart,    \* the cartridge inserted
    pc,      \* PC_
    p,       \* P_: its top bit is N, its lowest stands for B
    idx,     \* indexing an operand near the end of a page leaves the page
    stk,     \* SP_ and the memory the stack functions reach
    todo,    \* cycles_todo_
    nmiOn,   \* bit 7 of PPUCTRL_
    vblank,  \* bit 7 of PPUSTATUS_
    frames   \* history: the contexts NMIs interrupted, the innermost last

cpuVars == <<cart, pc, p, idx, stk, todo, nmiOn, vblank, frames>>

Code == Program[cart].code
Opcode == Code[pc]

Context == [pc : Word, p : Byte, sp : Byte]

(* The registers keep their widths; cycles_todo_ is never decremented at    *)
(* zero, where the size_t would wrap.                                       *)
CpuTypeOK ==
    /\ cart \in Cartridge
    /\ pc \in Word
    /\ p \in Byte
    /\ idx \in BOOLEAN
    /\ stk \in StackType
    /\ todo \in 0 .. 7
    /\ nmiOn \in BOOLEAN
    /\ vblank \in BOOLEAN
    /\ frames \in Seq(Context)

(* The constructor; P_ = 0x34 has B set and N clear.  PPUCTRL_ and          *)
(* PPUSTATUS_ are never initialised, so they hold anything.  The IRQ        *)
(* vector's high byte is the cell at 0xFFFF.                                *)
CpuInit ==
    /\ cart \in Cartridge
    /\ pc = Program[cart].reset
    /\ p = 1
    /\ idx = FALSE
    /\ stk = [sp  |-> W - 3,
              mem |-> [c \in Cell |-> IF c = Top THEN Hi(Program[cart].irq) ELSE 0]]
    /\ todo = 0
    /\ nmiOn \in BOOLEAN
    /\ vblank \in BOOLEAN
    /\ frames = <<>>

-----------------------------------------------------------------------------
(* uint16_t and flag arithmetic                                             *)
Plus(a, n) == IF a + n < W * W THEN a + n ELSE a + n - W * W

Half == W \div 2
Negative(f) == f >= Half
WithNegative(f, b) == IF b = Negative(f) THEN f
                      ELSE IF b THEN f + Half ELSE f - Half
WithBreak(f) == IF f % 2 = 1 THEN f ELSE f + 1

(* cycle_count: an indexed read lasts one cycle more when it leaves the     *)
(* page.  The opcode is the caller's, the operand is read after PC_.        *)
CycleCount(op) == IF op.indexed /\ Opcode.near /\ idx
                    THEN op.cycles + 1 ELSE op.cycles

-----------------------------------------------------------------------------
(* execute: one definition for each effect on the state kept here           *)
Advance(op) == pc' = Plus(pc, op.size)

\* STA, STX, STY to memory; NOP; the instructions on flags other than N.
Plain(op) ==
    /\ op.kind = "plain"
    /\ Advance(op)
    /\ UNCHANGED <<p, idx, stk, nmiOn, vblank, frames>>

\* Loads into A, arithmetic, logic, shifts and comparisons: any result.
DataOp(op) ==
    /\ op.kind = "data"
    /\ Advance(op)
    /\ \E b \in BOOLEAN : p' = WithNegative(p, b)
    /\ UNCHANGED <<idx, stk, nmiOn, vblank, frames>>

\* The same into X or Y.
IndexOp(op) ==
    /\ op.kind = "index"
    /\ Advance(op)
    /\ \E b \in BOOLEAN : p' = WithNegative(p, b)
    /\ idx' \in BOOLEAN
    /\ UNCHANGED <<stk, nmiOn, vblank, frames>>

\* BIT or LDA $2002: get_PPUSTATUS clears the bit it returns; without a PPU the bus
\* answers 0xAA, whose top bit is set.
ReadStatus(op) ==
    /\ op.kind = "status"
    /\ Advance(op)
    /\ p' = WithNegative(p, IF HasPpu THEN vblank ELSE TRUE)
    /\ vblank' = IF HasPpu THEN FALSE ELSE vblank
    /\ UNCHANGED <<idx, stk, nmiOn, frames>>

\* STA $2000
WriteCtrl(op) ==
    /\ op.kind = "ctrl"
    /\ Advance(op)
    /\ nmiOn' = IF HasPpu THEN op.arg = 1 ELSE nmiOn
    /\ UNCHANGED <<p, idx, stk, vblank, frames>>

BranchOnPlus(op) ==
    /\ op.kind = "bpl"
    /\ pc' = IF Negative(p) THEN Plus(pc, op.size) ELSE op.arg
    /\ UNCHANGED <<p, idx, stk, nmiOn, vblank, frames>>

BranchOnOther(op) ==
    /\ op.kind = "branch"
    /\ pc' \in {Plus(pc, op.size), op.arg}
    /\ UNCHANGED <<p, idx, stk, nmiOn, vblank, frames>>

Jump(op) ==
    /\ op.kind = "jmp"
    /\ pc' = op.arg
    /\ UNCHANGED <<p, idx, stk, nmiOn, vblank, frames>>

\* The address pushed is that of the last byte of the JSR itself.
Call(op) ==
    /\ op.kind = "jsr"
    /\ stk' = Push16(stk, Plus(pc, 2))
    /\ pc' = op.arg
    /\ UNCHANGED <<p, idx, nmiOn, vblank, frames>>

Return(op) ==
    /\ op.kind = "rts"
    /\ pc' = Plus(Popped16(stk), 1)
    /\ stk' = Pop16(stk)
    /\ UNCHANGED <<p, idx, nmiOn, vblank, frames>>

\* An RTI at the depth its NMI was taken at ends that NMI's handler.
EndsHandler == frames # <<>> /\ stk.sp = Down(frames[Len(frames)].sp, 3)

\* Mutant of ReturnFromInterrupt: PC_ one beyond the address, as for RTS.
ReturnBeyond(op) ==
    /\ op.kind = "rti"
    /\ p' = Popped(stk)
    /\ pc' = Plus(Popped16(Pop(stk)), 1)
    /\ stk' = Pop16(Pop(stk))
    /\ frames' = IF EndsHandler THEN SubSeq(frames, 1, Len(frames) - 1) ELSE frames
    /\ UNCHANGED <<idx, nmiOn, vblank>>

ReturnFromInterrupt(op) ==
    /\ op.kind = "rti"
    /\ p' = Popped(stk)
    /\ pc' = Popped16(Pop(stk))
    /\ stk' = Pop16(Pop(stk))
    /\ frames' = IF EndsHandler THEN SubSeq(frames, 1, Len(frames) - 1) ELSE frames
    /\ UNCHANGED <<idx, nmiOn, vblank>>

\* Mutant of Break: P_ is not pushed.
BreakKeepingFlags(op) ==
    /\ op.kind = "brk"
    /\ stk' = Push16(stk, Plus(pc, 1))
    /\ pc' = MakeWord(stk'.mem[Top], Lo(Program[cart].irq))
    /\ p' = WithBreak(p)
    /\ UNCHANGED <<idx, nmiOn, vblank, frames>>

\* The break flag is set after P_ was pushed; the vector's high byte is the
\* cell a 16-bit push with SP_ = 0 overwrites.
Break(op) ==
    /\ op.kind = "brk"
    /\ stk' = Push(Push16(stk, Plus(pc, 1)), p)
    /\ pc' = MakeWord(stk'.mem[Top], Lo(Program[cart].irq))
    /\ p' = WithBreak(p)
    /\ UNCHANGED <<idx, nmiOn, vblank, frames>>

PushA(op) ==
    /\ op.kind = "pha"
    /\ \E a \in {0, Half} : stk' = Push(stk, a)
    /\ Advance(op)
    /\ UNCHANGED <<p, idx, nmiOn, vblank, frames>>

PushP(op) ==
    /\ op.kind = "php"
    /\ stk' = Push(stk, p)
    /\ Advance(op)
    /\ UNCHANGED <<p, idx, nmiOn, vblank, frames>>

PullA(op) ==
    /\ op.kind = "pla"
    /\ p' = WithNegative(p, Negative(Popped(stk)))
    /\ stk' = Pop(stk)
    /\ Advance(op)
    /\ UNCHANGED <<idx, nmiOn, vblank, frames>>

PullP(op) ==
    /\ op.kind = "plp"
    /\ p' = Popped(stk)
    /\ stk' = Pop(stk)
    /\ Advance(op)
    /\ UNCHANGED <<idx, nmiOn, vblank, frames>>

TransferXToSP(op) ==
    /\ op.kind = "txs"
    /\ stk' = [stk EXCEPT !.sp = op.arg]
    /\ Advance(op)
    /\ UNCHANGED <<p, idx, nmiOn, vblank, frames>>

\* `default: break`: an invalid opcode leaves everything as it was, PC_ too.
Ignore(op) ==
    /\ op.kind = "invalid"
    /\ UNCHANGED <<pc, p, idx, stk, nmiOn, vblank, frames>>

Execute(op) ==
    \/ Plain(op) \/ DataOp(op) \/ IndexOp(op)
    \/ ReadStatus(op) \/ WriteCtrl(op)
    \/ BranchOnPlus(op) \/ BranchOnOther(op) \/ Jump(op)
    \/ Call(op) \/ Return(op) \/ ReturnFromInterrupt(op) \/ Break(op)
    \/ PushA(op) \/ PushP(op) \/ PullA(op) \/ PullP(op) \/ TransferXToSP(op)
    \/ Ignore(op)

-----------------------------------------------------------------------------
(* cycle(): the first cycle of an instruction looks up how many it lasts,   *)
(* the last executes it.  cycle_count throws for an invalid opcode.         *)
CycleThrows == todo = 0 /\ Opcode.kind = "invalid"

Fetch ==
    /\ todo = 0
    /\ Opcode.kind # "invalid"
    /\ todo' = CycleCount(Opcode) - 1
    /\ UNCHANGED <<cart, pc, p, idx, stk, nmiOn, vblank, frames>>

\* Mutant of Wait: the counter is decremented without a look for zero.
WaitBelowZero ==
    /\ todo # 1
    /\ todo' = todo - 1
    /\ UNCHANGED <<cart, pc, p, idx, stk, nmiOn, vblank, frames>>

Wait ==
    /\ todo > 1
    /\ todo' = todo - 1
    /\ UNCHANGED <<cart, pc, p, idx, stk, nmiOn, vblank, frames>>

Finish ==
    /\ todo = 1
    /\ Execute(Opcode)
    /\ todo' = 0
    /\ UNCHANGED cart

Cycle == Fetch \/ Wait \/ Finish

\* Mutants of EnterHandler: P_ pushed before PC_; the instruction that was
\* cut short returned to as if it had been finished.
EnterPushingPFirst ==
    /\ todo' = IF todo > 1 THEN 1 ELSE todo
    /\ stk' = Push16(Push(stk, p), pc)
    /\ pc' = Program[cart].nmi
    /\ frames' = Append(frames, [pc |-> pc, p |-> p, sp |-> stk.sp])
    /\ UNCHANGED <<cart, p, idx, nmiOn>>

EnterSkipping ==
    /\ todo' = IF todo > 1 THEN 1 ELSE todo
    /\ stk' = Push(Push16(stk, IF todo > 0 THEN Plus(pc, Opcode.size) ELSE pc), p)
    /\ pc' = Program[cart].nmi
    /\ frames' = Append(frames, [pc |-> pc, p |-> p, sp |-> stk.sp])
    /\ UNCHANGED <<cart, p, idx, nmiOn>>

(* trigger_nmi: todo - 1 further cycles, all of them Wait, bring the        *)
(* counter to 1 and leave the pending instruction unexecuted.               *)
EnterHandler ==
    /\ todo' = IF todo > 1 THEN 1 ELSE todo
    /\ stk' = Push(Push16(stk, pc), p)
    /\ pc' = Program[cart].nmi
    /\ frames' = Append(frames, [pc |-> pc, p |-> p, sp |-> stk.sp])
    /\ UNCHANGED <<cart, p, idx, nmiOn>>

TriggerNmi == EnterHandler /\ UNCHANGED vblank

(* cycle() when it throws: reading the opcode is all that has happened.     *)
Throw == CycleThrows /\ UNCHANGED cpuVars

(* render_to_framebuffer sets the vblank flag when the picture is done.     *)
SetVBlank ==
    /\ HasPpu
    /\ vblank' = TRUE
    /\ UNCHANGED <<cart, pc, p, idx, stk, todo, nmiOn, frames>>

(* Any client of these functions, such as the tests: NMIs at any cycle,     *)
(* also inside the handler of another.                                      *)
CpuNext ==
    \/ Cycle
    \/ Throw
    \/ SetVBlank
    \/ Len(frames) < MaxNest /\ TriggerNmi

CpuSpec == CpuInit /\ [][CpuNext]_cpuVars

-----------------------------------------------------------------------------
(* What a program owes to its stack: a handler leaves alone what its NMI    *)
(* pushed, until its RTI, and no instruction takes SP_ out of the page at   *)
(* either end.                                                              *)
HandlersBalanced == frames # <<>> => stk.sp + 3 <= frames[Len(frames)].sp

StackHasRoom ==
    todo = 1 =>
        /\ Opcode.kind \in {"pha", "php"} => stk.sp >= 1
        /\ Opcode.kind = "jsr" => stk.sp >= 2
        /\ Opcode.kind = "brk" => stk.sp >= 3
        /\ Opcode.kind \in {"pla", "plp"} => stk.sp + 1 < W
        /\ Opcode.kind = "rts" => stk.sp + 2 < W
        /\ Opcode.kind = "rti" => stk.sp + 3 < W

StackKept == HandlersBalanced /\ StackHasRoom

(* The inductive invariant of such programs: every context interrupted lies *)
(* on the stack whole, the outer ones above the inner ones, and nothing has *)
(* reached the cartridge's last byte.                                       *)
Saved(f) ==
    /\ f.sp >= 3
    /\ stk.mem[f.sp] = Hi(f.pc)
    /\ stk.mem[f.sp - 1] = Lo(f.pc)
    /\ stk.mem[f.sp - 2] = f.p

FramesKept ==
    /\ \A n \in 1 .. Len(frames) : Saved(frames[n])
    /\ \A m, n \in 1 .. Len(frames) : m < n => frames[n].sp <= frames[m].sp
    /\ stk.mem[Top] = Hi(Program[cart].irq)

(* What trigger_nmi pushes is what an RTI in its place would pop: the       *)
(* address and the flags of the program interrupted, and its stack pointer; *)
(* nothing the program has on its stack is overwritten.                     *)
NmiSavesContext ==
    [][EnterHandler /\ stk.sp >= 2
         => /\ Popped(stk') = p
            /\ Popped16(Pop(stk')) = pc
            /\ Pop16(Pop(stk')).sp = stk.sp
            /\ \A c \in Byte : c > stk.sp => stk'.mem[c] = stk.mem[c]]_cpuVars

(* The RTI of a handler puts the program back where its NMI found it: the   *)
(* same instruction, the same flags, the same stack pointer, with the       *)
(* handler's own pushes, calls and nested NMIs in between.                  *)
HandlerReturnsToContext ==
    [][todo = 1 /\ Opcode.kind = "rti" /\ EndsHandler /\ Finish
         => [pc |-> pc', p |-> p', sp |-> stk'.sp] = frames[Len(frames)]]_cpuVars

(* The interrupted program, seen without its interrupts: while a handler    *)
(* runs, the program is where the outermost NMI found it.                   *)
Base == IF frames = <<>> THEN [pc |-> pc, p |-> p, sp |-> stk.sp] ELSE frames[1]

T == INSTANCE Thread WITH
         code   <- Code,
         tpc    <- Base.pc,
         tp     <- Base.p,
         tstack <- Above(stk.mem, Base.sp)

(* NMIs are transparent: taken at any cycle, with the instruction they cut  *)
(* short started over, nested or not, they make the program neither skip    *)
(* nor repeat an instruction, nor lose a byte of its stack.                 *)
Uninterrupted ==
    /\ T!Init(Code, Program[cart].reset)
    /\ [][T!Next(Program[cart].irq)]_(T!tvars)
=============================================================================
