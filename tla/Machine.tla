------------------------------ MODULE Machine ------------------------------
(***************************************************************************)
(* The CPU byte by byte: its registers, every instruction of the decoder   *)
(* on the values it computes, every access to the bus it makes.  Module    *)
(* Cpu abstracts from these values to explore all the orders in which      *)
(* interrupts come; this module computes what programs do.                 *)
(*                                                                         *)
(* The public functions are cycle(), advance_cycles(), which repeats it,   *)
(* advance_instruction() and trigger_nmi() (lib/cpu/alu.cpp).              *)
(***************************************************************************)
EXTENDS Alu, Isa, Bus

VARIABLES
    cpu,   \* the registers pc, sp, a, x, y, p, and the bus
    todo   \* cycles_todo_

machineVars == <<cpu, todo>>

(* The constructor: PC_ from the reset vector, P_ = 0x34.                   *)
PowerOn(bus) ==
    LET entry == Read16(bus, \hFFFC)
    IN  [pc |-> entry.v, sp |-> \hFD, a |-> 0, x |-> 0, y |-> 0, p |-> Flags(\h34),
         bus |-> entry.bus]

\* The values of 16 bits; the memories: sparse ones, of the given size, and a program.
MaxWord == \hFFFF
Words   == 0 .. MaxWord

SparseTypeOK(mem, size) == \A c \in DOMAIN mem : c \in Nat /\ c < size /\ mem[c] \in Byte \ {0}
PrgTypeOK(prg)          == \A i \in DOMAIN prg : prg[i] \in Byte

PpuTypeOK(u) ==
    /\ u \in [ctrl : Byte, mask : Byte, status : Byte, oamaddr : Byte, oamdata : Byte,
              scroll : Byte, addr : Words, names : {u.names}, palette : {u.palette}]
    /\ SparseTypeOK(u.names, \h1000)
    /\ SparseTypeOK(u.palette, 32)

PadTypeOK(pad) == pad \in [reg : Byte, strobe : BOOLEAN]

CartTypeOK(m) ==
    /\ \/ m \in [kind : {"Vector"}, prg : {m.prg}, isr : Words, entry : Words]
       \/ m \in [kind : {"Mapper0"}, prg : {m.prg}, banks : Byte]
    /\ PrgTypeOK(m.prg)

BusTypeOK(b) ==
    /\ b \in [ram : {b.ram}, attached : SUBSET {"ppu", "pad"}, ppu : {b.ppu}, pad : {b.pad},
              keys : SUBSET Button, cart : {b.cart}, thrown : BOOLEAN]
    /\ SparseTypeOK(b.ram, \h800)
    /\ "ppu" \in b.attached => PpuTypeOK(b.ppu)
    /\ "pad" \in b.attached => PadTypeOK(b.pad)
    /\ CartTypeOK(b.cart)

StateTypeOK(s) ==
    /\ s \in [pc : Words, sp : Byte, a : Byte, x : Byte, y : Byte, p : SUBSET Flag,
              bus : {s.bus}]
    /\ BusTypeOK(s.bus)

\* Between two calls no exception is under way.
MachineTypeOK == StateTypeOK(cpu) /\ ~cpu.bus.thrown /\ todo \in 0 .. 8

-----------------------------------------------------------------------------
(* Operands: addr_fetch and value_fetch.  Each yields v and the bus after   *)
(* the reads it took.                                                       *)
Indexed(f, n) == [f EXCEPT !.v = Word(@ + n)]
InZeroPage(f, n) == [f EXCEPT !.v = (@ + n) % 256]
Through(f) == Read16(f.bus, f.v)

ByByte(s, mode, byte) ==
    CASE mode = "ZP"   -> byte
      [] mode = "ZPX"  -> InZeroPage(byte, s.x)
      [] mode = "ZPY"  -> InZeroPage(byte, s.y)
      [] mode = "INDX" -> Through(InZeroPage(byte, s.x))
      [] mode = "INDY" -> Indexed(Through(byte), s.y)

ByWord(s, mode, word) ==
    CASE mode = "ABS"  -> word
      [] mode = "ABSX" -> Indexed(word, s.x)
      [] mode = "ABSY" -> Indexed(word, s.y)
      [] mode = "IND"  -> Through(word)

AddrFetch(s, mode) ==
    IF mode \in {"ABS", "ABSX", "ABSY", "IND"}
      THEN ByWord(s, mode, Read16(s.bus, Word(s.pc + 1)))
      ELSE ByByte(s, mode, Read(s.bus, Word(s.pc + 1)))

ReadAt(f) == Read(f.bus, f.v)

\* Mutant of ValueFetch: an immediate operand taken for an address.
ValueFetchIndirect(s, mode) ==
    IF mode = "A" THEN [v |-> s.a, bus |-> s.bus]
                  ELSE ReadAt(AddrFetch(s, IF mode = "IMM" THEN "ZP" ELSE mode))

ValueFetch(s, mode) ==
    CASE mode = "A" -> [v |-> s.a, bus |-> s.bus]
      [] mode \in {"REL", "IMM"} -> Read(s.bus, Word(s.pc + 1))
      [] OTHER -> ReadAt(AddrFetch(s, mode))

CrossedPage(a, b) == a \div 256 # b \div 256

(* cycle_count: the reads it makes are real ones.  For (indirect),Y the     *)
(* base address is what kIndirect yields, which reads through the two bytes *)
(* after the opcode as if they were an absolute address.                    *)
WithCrossing(i, base, at) ==
    [v |-> BaseCycles(i) + One(CrossedPage(base.v, at.v)), bus |-> at.bus]

CountFrom(s, i, base) == WithCrossing(i, base, AddrFetch([s EXCEPT !.bus = base.bus], i.mode))

CycleCount(s, i) ==
    IF Crosses(i) THEN CountFrom(s, i, AddrFetch(s, IF i.mode = "INDY" THEN "IND" ELSE "ABS"))
                  ELSE [v |-> BaseCycles(i), bus |-> s.bus]

-----------------------------------------------------------------------------
(* s is the CPU after an access, t what is made of it next: nothing, if the *)
(* access threw.  What was done before that stays done.                     *)
GoingOn(s, t) == IF s.bus.thrown THEN s ELSE t

WithBus(s, b) == [s EXCEPT !.bus = b]

(* The stack, in page 1: push_stack, push_stack16, pop_stack, pop_stack16   *)
StackWord(sp) == IF sp = 0 THEN \hFFFF ELSE \h100 + sp - 1

\* Mutant of PushByte: SP_ does not wrap around.
PushByteUnwrapped(s, v) == [s EXCEPT !.bus = Write(@, \h100 + s.sp, v).bus, !.sp = @ - 1]

\* SP_ moves after the write, and before the read.
PushByte(s, v) ==
    LET t == WithBus(s, Write(s.bus, \h100 + s.sp, v).bus)
    IN  GoingOn(t, [t EXCEPT !.sp = (@ - 1) % 256])

PushWord(s, w) ==
    LET t == WithBus(s, Write16(s.bus, StackWord(s.sp), w).bus)
    IN  GoingOn(t, [t EXCEPT !.sp = (@ - 2) % 256])

\* What was pulled, and the CPU after it.
PullByte(s) ==
    LET sp == (s.sp + 1) % 256
        r  == Read(s.bus, \h100 + sp)
    IN  [v |-> r.v, s |-> [s EXCEPT !.sp = sp, !.bus = r.bus]]

PullWord(s) ==
    LET sp == (s.sp + 2) % 256
        r  == Read16(s.bus, StackWord(sp))
    IN  [v |-> r.v, s |-> [s EXCEPT !.sp = sp, !.bus = r.bus]]

\* peek_stack, peek_stack16: 0x0100 | (SP_ + 1), which wraps once more above 0xFF.
TopOfStack(s)   == Read(s.bus, \h100 + ((s.sp + 1) % 256))
TopOfStack16(s) == Read16(s.bus, \h100 + ((s.sp + 1) % 256))

(* print_instruction: the operand it shows, 0 if the mode has none, and the *)
(* bus after the reads that showing it took.                                *)
Printed(s, i) ==
    CASE i.mode \in {"IMPL", "A"} -> [v |-> 0, bus |-> s.bus]
      [] i.mode \in {"ABS", "ABSX", "ABSY", "IND"} -> Read16(s.bus, Word(s.pc + 1))
      [] OTHER -> Read(s.bus, Word(s.pc + 1))

-----------------------------------------------------------------------------
(* execute: what an instruction makes of the CPU, one operator a family     *)

\* Mutant of Advanced: PC_ moves on before the accesses are made.
AdvancedAnyway(s, i) == [s EXCEPT !.pc = Word(@ + Size[i.mode])]

Advanced(s, i) == GoingOn(s, [s EXCEPT !.pc = Word(@ + Size[i.mode])])

\* A register, under its instruction's last letter.
Reg(op) == CASE op \in {"LDA", "STA", "CMP"} -> "a"
             [] op \in {"LDX", "STX", "CPX", "INX", "DEX"} -> "x"
             [] op \in {"LDY", "STY", "CPY", "INY", "DEY"} -> "y"

\* f: the operand, from ValueFetch; at: the operand's address, from AddrFetch.
Loaded(s, op, f) ==
    GoingOn(WithBus(s, f.bus), [s EXCEPT ![Reg(op)] = f.v, !.p = WithZN(@, f.v), !.bus = f.bus])

Stored(s, op, at) == WithBus(s, Write(at.bus, at.v, s[Reg(op)]).bus)

Computed(s, op, f) ==
    LET r == CASE op = "ADC" -> ADC(s.a, f.v, s.p)
               [] op = "SBC" -> SBC(s.a, f.v, s.p)
               [] op = "AND" -> AND(s.a, f.v, s.p)
               [] op = "ORA" -> ORA(s.a, f.v, s.p)
               [] op = "EOR" -> EOR(s.a, f.v, s.p)
    IN  GoingOn(WithBus(s, f.bus), [s EXCEPT !.a = r.v, !.p = r.p, !.bus = f.bus])

Compared(s, op, f) ==
    GoingOn(WithBus(s, f.bus),
        [s EXCEPT !.bus = f.bus,
                  !.p = IF op = "BIT" THEN BIT(s.a, f.v, @) ELSE CMP(s[Reg(op)], f.v, @)])

Shifted(op, v, p) ==
    CASE op = "ASL" -> ASL(v, p)
      [] op = "LSR" -> LSR(v, p)
      [] op = "ROL" -> ROL(v, p)
      [] op = "ROR" -> ROR(v, p)
      [] op = "INC" -> INC(v, p)
      [] op = "DEC" -> DEC(v, p)

\* Read, modify, write: the accumulator or a byte of memory.
ModifiedA(s, r) == [s EXCEPT !.a = r.v, !.p = r.p]

(* f: the byte read.  The shifts set the flags before they write the byte    *)
(* back, INC and DEC after it.                                              *)
ModifiedAt(s, op, at, f) ==
    LET r == Shifted(op, f.v, s.p)
        t == WithBus(s, Write(f.bus, at.v, r.v).bus)
    IN  GoingOn(WithBus(s, f.bus),
            IF op \in {"INC", "DEC"} THEN GoingOn(t, [t EXCEPT !.p = r.p]) ELSE [t EXCEPT !.p = r.p])

ModifiedMemory(s, op, at) == ModifiedAt(s, op, at, ReadAt(at))

Modified(s, i) ==
    IF i.mode = "A" THEN ModifiedA(s, Shifted(i.op, s.a, s.p))
                    ELSE ModifiedMemory(s, i.op, AddrFetch(s, i.mode))

Stepped(s, op) ==
    LET r == IF op \in {"INX", "INY"} THEN INC(s[Reg(op)], s.p) ELSE DEC(s[Reg(op)], s.p)
    IN  [s EXCEPT ![Reg(op)] = r.v, !.p = r.p]

\* All of them set Z and N, but for TXS.
Transferred(s, op) ==
    CASE op = "TXS" -> [s EXCEPT !.sp = s.x]
      [] op = "TSX" -> [s EXCEPT !.x = s.sp, !.p = WithZN(@, s.sp)]
      [] op = "TAX" -> [s EXCEPT !.x = s.a, !.p = WithZN(@, s.a)]
      [] op = "TAY" -> [s EXCEPT !.y = s.a, !.p = WithZN(@, s.a)]
      [] op = "TXA" -> [s EXCEPT !.a = s.x, !.p = WithZN(@, s.x)]
      [] op = "TYA" -> [s EXCEPT !.a = s.y, !.p = WithZN(@, s.y)]

FlagSet(s, op) ==
    [s EXCEPT !.p = CASE op = "CLC" -> @ \ {"C"}
                      [] op = "CLD" -> @ \ {"D"}
                      [] op = "CLI" -> @ \ {"I"}
                      [] op = "CLV" -> @ \ {"V"}
                      [] op = "SEC" -> @ \union {"C"}
                      [] op = "SED" -> @ \union {"D"}
                      [] op = "SEI" -> @ \union {"I"}]

Taken(op, p) ==
    CASE op = "BCC" -> "C" \notin p
      [] op = "BCS" -> "C" \in p
      [] op = "BNE" -> "Z" \notin p
      [] op = "BEQ" -> "Z" \in p
      [] op = "BPL" -> "N" \notin p
      [] op = "BMI" -> "N" \in p
      [] op = "BVC" -> "V" \notin p
      [] op = "BVS" -> "V" \in p

\* Mutant of Branched: the offset counted from the branch itself.
BranchedFromSelf(s, op, f) ==
    [s EXCEPT !.pc = Word(@ + (IF Taken(op, s.p) THEN Signed(f.v) ELSE Size["REL"])), !.bus = f.bus]

\* The offset is signed, and counted from the instruction after the branch.
Branched(s, op, f) ==
    GoingOn(WithBus(s, f.bus),
        [s EXCEPT !.pc = Word(@ + Size["REL"] + (IF Taken(op, s.p) THEN Signed(f.v) ELSE 0)),
                  !.bus = f.bus])

Jumped(s, at) == GoingOn(WithBus(s, at.bus), [s EXCEPT !.pc = at.v, !.bus = at.bus])

\* Mutant of Called: the address of the next instruction is pushed.
CalledNext(s) ==
    LET t == PushWord(s, Word(s.pc + 3)) IN Jumped(t, AddrFetch(t, "ABS"))

\* The return address pushed is that of the JSR's last byte; RTS adds the one.
Called(s) ==
    LET t == PushWord(s, Word(s.pc + 2)) IN Jumped(t, AddrFetch(t, "ABS"))

Returned(s) == LET w == PullWord(s) IN GoingOn(w.s, [w.s EXCEPT !.pc = Word(w.v + 1)])

\* q is the CPU with the flags it pulled first.
ReturnedWith(q) == LET w == PullWord(q) IN GoingOn(w.s, [w.s EXCEPT !.pc = w.v])

ReturnedFromInterrupt(s) ==
    LET b == PullByte(s) IN GoingOn(b.s, ReturnedWith([b.s EXCEPT !.p = Flags(b.v)]))

Interrupted(s, pc, vector) ==
    LET t == PushByte(PushWord(s, pc), StatusByte(s.p)) IN Jumped(t, Read16(t.bus, vector))

\* Break is set after the flags were pushed.
Broken(s) ==
    LET t == Interrupted(s, Word(s.pc + 1), \hFFFE)
    IN  GoingOn(t, [t EXCEPT !.p = @ \union {"B"}])

Pushed(s, op) == PushByte(s, IF op = "PHA" THEN s.a ELSE StatusByte(s.p))

\* PLP goes on, as PLA does, to set Z and N by the byte it pulled.
Pulled(s, op) ==
    LET b == PullByte(s)
    IN  GoingOn(b.s, IF op = "PLA" THEN [b.s EXCEPT !.a = b.v, !.p = WithZN(@, b.v)]
                                   ELSE [b.s EXCEPT !.p = WithZN(Flags(b.v), b.v)])

-----------------------------------------------------------------------------
(* cycle(): the first cycle of an instruction looks up how many it lasts,   *)
(* the last executes it; both read the opcode.                              *)
Opcode == Read(cpu.bus, cpu.pc)

Fetched == WithBus(cpu, Opcode.bus)

Instruction == Decoded[Opcode.v]

\* cycle_count throws for an invalid opcode, Mapper0 for an address below 0x6000.
Count == CycleCount(Fetched, Instruction)

Invalid == ~Fetched.bus.thrown /\ Opcode.v \notin Valid

StartThrows == IF Invalid THEN TRUE ELSE Fetched.bus.thrown \/ Count.bus.thrown

(* The exception leaves the CPU as it is at the throw, s: nothing is undone. *)
Caught(s) == cpu' = [s EXCEPT !.bus.thrown = FALSE] /\ UNCHANGED todo

Start ==
    /\ todo = 0
    /\ ~StartThrows
    /\ todo' = Count.v - 1
    /\ cpu' = WithBus(cpu, Count.bus)

ThrowAtStart ==
    /\ todo = 0
    /\ StartThrows
    /\ Caught(IF Opcode.v \in Valid THEN WithBus(cpu, Count.bus) ELSE Fetched)

Wait == todo > 1 /\ todo' = todo - 1 /\ UNCHANGED cpu

(* The last cycle of one of the given instructions, which makes s of the    *)
(* CPU; if an access throws, cycles_todo_ stays 1 and the instruction is    *)
(* tried again from what it left.                                           *)
Executes(ops, s) ==
    /\ todo = 1
    /\ ~Fetched.bus.thrown /\ Opcode.v \in Valid
    /\ Instruction.op \in ops
    /\ IF s.bus.thrown THEN Caught(s) ELSE cpu' = s /\ todo' = 0

Then(s) == Advanced(s, Instruction)

Op      == Instruction.op
Address == AddrFetch(Fetched, Instruction.mode)
Operand == ValueFetch(Fetched, Instruction.mode)

Load      == Executes({"LDA", "LDX", "LDY"}, Then(Loaded(Fetched, Op, Operand)))
Store     == Executes(Stores, Then(Stored(Fetched, Op, Address)))
Compute   == Executes({"ADC", "AND", "EOR", "ORA", "SBC"}, Then(Computed(Fetched, Op, Operand)))
Compare   == Executes({"BIT", "CMP", "CPX", "CPY"}, Then(Compared(Fetched, Op, Operand)))
Modify    == Executes(Modifies, Then(Modified(Fetched, Instruction)))
StepIndex == Executes({"DEX", "DEY", "INX", "INY"}, Then(Stepped(Fetched, Op)))
Transfer  == Executes({"TAX", "TAY", "TSX", "TXA", "TXS", "TYA"}, Then(Transferred(Fetched, Op)))
SetFlag   == Executes({"CLC", "CLD", "CLI", "CLV", "SEC", "SED", "SEI"}, Then(FlagSet(Fetched, Op)))
NoOp      == Executes({"NOP"}, Then(Fetched))
Branch    == Executes({"BCC", "BCS", "BEQ", "BMI", "BNE", "BPL", "BVC", "BVS"},
                      Branched(Fetched, Op, Operand))
Jump      == Executes({"JMP"}, Jumped(Fetched, Address))
Call      == Executes({"JSR"}, Called(Fetched))
Return    == Executes({"RTS"}, Returned(Fetched))
EndOfInterrupt == Executes({"RTI"}, ReturnedFromInterrupt(Fetched))
Break     == Executes({"BRK"}, Broken(Fetched))
PushOne   == Executes({"PHA", "PHP"}, Then(Pushed(Fetched, Op)))
PullOne   == Executes({"PLA", "PLP"}, Then(Pulled(Fetched, Op)))

\* `default: break`, for the opcode an NMI has brought PC_ to in the meantime.
Ignore == todo = 1 /\ Invalid /\ cpu' = Fetched /\ todo' = 0

\* The opcode itself cannot be read.
ThrowAtEnd == todo = 1 /\ Fetched.bus.thrown /\ Caught(Fetched)

Finish ==
    \/ Load \/ Store \/ Compute \/ Compare \/ Modify \/ StepIndex \/ Transfer \/ SetFlag \/ NoOp
    \/ Branch \/ Jump \/ Call \/ Return \/ EndOfInterrupt \/ Break \/ PushOne \/ PullOne \/ Ignore
    \/ ThrowAtEnd

Cycle == Start \/ ThrowAtStart \/ Wait \/ Finish

\* Mutant of CyclesOfAdvance: one cycle short.
CyclesOneShort == todo + Count.v - 1

(* advance_instruction(): it takes the cycles of the opcode PC_ is at, also *)
(* when that one has been begun, and then runs the cycles left of it and    *)
(* as many more as it lasts.                                                *)
CyclesOfAdvance == todo + Count.v

\* Mutant of TriggerNmi: the instruction's cycles are not cut short.
TriggerNmiUncut == todo' = todo /\ cpu' = Interrupted(cpu, cpu.pc, \hFFFA)

(* trigger_nmi(): the cycles it runs are all Wait.                          *)
TriggerNmi ==
    /\ todo' = IF todo > 1 THEN 1 ELSE todo
    /\ cpu' = Interrupted(cpu, cpu.pc, \hFFFA)

-----------------------------------------------------------------------------
(* A cycle that throws leaves nothing half done: no instruction has pushed, *)
(* pulled, or set a register or flag before the access of it that throws,   *)
(* so that it can be tried again (alu.cpp:494, cartridge.cpp:29).           *)
ExceptionIsClean ==
    [][Cycle /\ todo' = todo =>
        cpu'.bus.ram = cpu.bus.ram /\ [cpu' EXCEPT !.bus = cpu.bus] = cpu]_machineVars
=============================================================================
