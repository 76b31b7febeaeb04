------------------------------- MODULE Script -------------------------------
(***************************************************************************)
(* The unit tests of the CPU (app/test-cpu.cpp) as data: a test is the     *)
(* program it puts into a VectorMapper and the script it drives the CPU    *)
(* by, step by step.  Module Units runs them.                              *)
(***************************************************************************)
EXTENDS Integers, Sequences, Mapper

(* MAKE_CPU; BRK and RTI give the mapper an interrupt vector of their own.  *)
TestWithIsr(prog, isr, script) ==
    [cart |-> VectorMapper(Image(prog), isr, \h8000), script |-> script]

Test(prog, script) == TestWithIsr(prog, \hFFFF, script)

Lo(w) == w % 256
Hi(w) == w \div 256

-----------------------------------------------------------------------------
(* What a script does                                                       *)

\* cycle(), n times; advance_cycles(n)
Cycles(n) == [do |-> "Cycles", n |-> n]

\* advance_instruction()
Instr == [do |-> "Instr"]

\* write(), write16()
Put(at, v)   == [do |-> "Put", at |-> at, v |-> v]
Put16(at, w) == [do |-> "Put16", at |-> at, v |-> w]

\* Consecutive bytes, put one by one.
PutAll(at, bytes) == [j \in 1 .. Len(bytes) |-> Put(at + j - 1, bytes[j])]

\* PC() and P(), kept to compare with later.
Mark == [do |-> "Mark"]

-----------------------------------------------------------------------------
(* What it requires                                                         *)

\* Registers, under their names, and flags, under their letters.
Is(want)    == [do |-> "Is", want |-> want]
IsNot(want) == [do |-> "IsNot", want |-> want]

\* A byte or a word of memory.
Mem(at, v)   == [do |-> "Mem", at |-> at, v |-> v]
Mem16(at, w) == [do |-> "Mem16", at |-> at, v |-> w]

\* The word at PC.
Ahead(w) == [do |-> "Ahead", v |-> w]

\* The byte on top of the stack; whether that byte is the P() of the mark.
Top(v)    == [do |-> "Top", v |-> v]
TopMarked == [do |-> "TopMarked"]

\* The word on top of the stack, from the mark's PC on.
TopMoved(d) == [do |-> "TopMoved", d |-> d]

\* PC() from the mark's on, and P() against the mark's.
Moved(d)  == [do |-> "Moved", d |-> d]
SameFlags == [do |-> "SameFlags"]
NewFlags  == [do |-> "NewFlags"]

\* What print_instruction shows of the instruction at PC.
Prints(op, mode, operand) == [do |-> "Prints", op |-> op, mode |-> mode, v |-> operand]

\* The steps that change the CPU or the mark.
Deeds == {"Cycles", "Instr", "Put", "Put16", "Mark"}
=============================================================================
