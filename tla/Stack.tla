------------------------------- MODULE Stack -------------------------------
(***************************************************************************)
(* The stack page of the 6502 as CPU::push_stack, push_stack16, pop_stack  *)
(* and pop_stack16 use it (lib/cpu/cpu.cpp).  A stack is a record of the   *)
(* stack pointer SP_ and of the memory cells these functions can reach:    *)
(* the W bytes of page 1, and the two cells that the 16-bit accesses fall  *)
(* out to when `0x0100 | (SP_ - 1)` is computed with SP_ = 0: SP_ - 1 is   *)
(* the int -1, so the address is 0xFFFF (Top, the last byte of the         *)
(* cartridge) and the byte after it is 0x0000 (Zero, the first of RAM).    *)
(*                                                                         *)
(* A byte has W values (256 in the program), an address W * W.             *)
(***************************************************************************)
EXTENDS Integers

CONSTANT W

ASSUME WidthAssumption == W \in Nat /\ W >= 4 /\ W % 2 = 0

Byte == 0 .. (W - 1)
Word == 0 .. (W * W - 1)

Lo(w) == w % W
Hi(w) == w \div W
MakeWord(hi, lo) == W * hi + lo

\* Mutant of Down: SP_ kept in an int.
DownUnwrapped(sp, n) == sp - n

\* Arithmetic on the uint8_t SP_, which wraps around its page.
Up(sp, n)   == IF sp + n < W THEN sp + n ELSE sp + n - W
Down(sp, n) == IF sp >= n THEN sp - n ELSE sp + W - n

Top  == W
Zero == W + 1
Cell == 0 .. (W + 1)

StackType == [sp : Byte, mem : [Cell -> Byte]]

-----------------------------------------------------------------------------
\* Mutant of Push: SP_ moved before the byte is written.
PushPreDecrement(s, v) == [sp  |-> Down(s.sp, 1),
                           mem |-> [s.mem EXCEPT ![Down(s.sp, 1)] = v]]

(* push_stack: the byte goes to the cell SP_ names, then SP_ moves down.    *)
Push(s, v) == [sp  |-> Down(s.sp, 1),
               mem |-> [s.mem EXCEPT ![s.sp] = v]]

\* Mutant of Push16: the high byte below the low one.
Push16Swapped(s, w) ==
    [sp  |-> Down(s.sp, 2),
     mem |-> IF s.sp = 0
               THEN [s.mem EXCEPT ![Top] = Hi(w)]
               ELSE [s.mem EXCEPT ![s.sp - 1] = Hi(w), ![s.sp] = Lo(w)]]

(* push_stack16 goes through write16, which is `write(lo) && write(hi)`.   *)
(* With SP_ = 0 the low byte is written to Top; CPU::write answers false   *)
(* for every cartridge address, so the high byte is not written at all.    *)
Push16(s, w) ==
    [sp  |-> Down(s.sp, 2),
     mem |-> IF s.sp = 0
               THEN [s.mem EXCEPT ![Top] = Lo(w)]
               ELSE [s.mem EXCEPT ![s.sp - 1] = Lo(w), ![s.sp] = Hi(w)]]

(* pop_stack: SP_ moves up, the byte is read where it then points.         *)
Pop(s)      == [s EXCEPT !.sp = Up(s.sp, 1)]
Popped(s)   == s.mem[Up(s.sp, 1)]

\* Mutant of Popped16: the high byte read below the low one.
Popped16Swapped(s) == LET top == Up(s.sp, 2)
                      IN  IF top = 0 THEN MakeWord(s.mem[Top], s.mem[Zero])
                                     ELSE MakeWord(s.mem[top - 1], s.mem[top])

(* pop_stack16: SP_ moves up by two; with SP_ = 0 after that, read16       *)
(* reads Top and, its address having wrapped, Zero.                        *)
Pop16(s)    == [s EXCEPT !.sp = Up(s.sp, 2)]
Popped16(s) == LET top == Up(s.sp, 2)
               IN  IF top = 0 THEN MakeWord(s.mem[Zero], s.mem[Top])
                              ELSE MakeWord(s.mem[top], s.mem[top - 1])

\* Mutant of Pop16Complains: the check of pop_stack.
Pop16ComplainsLate(s) == s.sp = W - 1

(* What a program that has not wrapped its stack has on it, the top first.  *)
Above(mem, sp) == [k \in 1 .. (W - 1 - sp) |-> mem[sp + k]]

(* The "Stack overflow/underflow detected" messages.                       *)
PushComplains(s)  == s.sp = 0
PopComplains(s)   == s.sp = W - 1
Pop16Complains(s) == s.sp >= W - 2
=============================================================================
