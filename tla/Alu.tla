-------------------------------- MODULE Alu --------------------------------
(***************************************************************************)
(* The arithmetic of the instructions (lib/cpu/alu.cpp:513-785): what each *)
(* makes of a byte and of the processor status.  P_ is kept as the set of  *)
(* flags that are set; StatusByte and Flags are its form on the stack.  An *)
(* operation yields a record: v, the byte, and p, the flags after it.      *)
(***************************************************************************)
EXTENDS Integers

Byte == 0 .. 255

Flag == {"C", "Z", "I", "D", "B", "U", "V", "N"}

\* The bits of P_; U is the one that no instruction names.
Weight == [C |-> 1, Z |-> 2, I |-> 4, D |-> 8, B |-> 16, U |-> 32, V |-> 64, N |-> 128]

Flags(b) == {f \in Flag : (b \div Weight[f]) % 2 = 1}

One(cond) == IF cond THEN 1 ELSE 0

StatusByte(p) ==
    One("C" \in p) + 2 * One("Z" \in p) + 4 * One("I" \in p) + 8 * One("D" \in p)
    + 16 * One("B" \in p) + 32 * One("U" \in p) + 64 * One("V" \in p) + 128 * One("N" \in p)

\* set_carry, set_zero, ...
With(p, f, cond) == IF cond THEN p \union {f} ELSE p \ {f}

Negative(v) == v >= 128

\* The byte as an int8_t.
Signed(v) == IF Negative(v) THEN v - 256 ELSE v

\* set_zero and set_negative, as most instructions end.
WithZN(p, v) == With(With(p, "Z", v = 0), "N", Negative(v))

Carry(p) == One("C" \in p)

-----------------------------------------------------------------------------
(* Addition and subtraction                                                 *)

\* detectFlowAddition, detectFlowSubtraction
AddFlows(a, b, r) == Negative(a) = Negative(b) /\ Negative(r) # Negative(a)
SubFlows(a, b, r) == Negative(a) # Negative(b) /\ Negative(r) # Negative(a)

\* Mutant of ADC: the carry that comes in is left out.
ADCWithoutCarry(a, val, p) ==
    LET sum == a + val
        r   == sum % 256
    IN  [v |-> r, p |-> WithZN(With(With(p, "V", AddFlows(a, val, r)), "C", sum >= 256), r)]

ADC(a, val, p) ==
    LET sum == a + val + Carry(p)
        r   == sum % 256
    IN  [v |-> r, p |-> WithZN(With(With(p, "V", AddFlows(a, val, r)), "C", sum >= 256), r)]

\* Mutant of SBC: it takes the borrow from a carry that is set.
SBCOfCarry(a, val, p) ==
    LET diff == a - (val + Carry(p))
        r    == diff % 256
    IN  [v |-> r, p |-> WithZN(With(With(p, "V", SubFlows(a, val, r)), "C", diff < 0), r)]

\* The high byte of the uint16_t is not 0 exactly when there was a borrow.
SBC(a, val, p) ==
    LET diff == a - (val + 1 - Carry(p))
        r    == diff % 256
    IN  [v |-> r, p |-> WithZN(With(With(p, "V", SubFlows(a, val, r)), "C", diff < 0), r)]

\* Mutant of CMP: equal counts as less.
CMPStrict(reg, other, p) ==
    With(With(With(p, "C", reg > other), "Z", reg = other), "N", reg < other)

CMP(reg, other, p) ==
    With(With(With(p, "C", reg >= other), "Z", reg = other), "N", reg < other)

INC(val, p) == LET r == (val + 1) % 256 IN [v |-> r, p |-> WithZN(p, r)]
DEC(val, p) == LET r == (val - 1) % 256 IN [v |-> r, p |-> WithZN(p, r)]

-----------------------------------------------------------------------------
(* Logic, bit by bit                                                        *)
Bitwise(Op(_, _), a, b) ==
    LET digit(w) == w * Op((a \div w) % 2, (b \div w) % 2)
    IN  digit(1) + digit(2) + digit(4) + digit(8)
        + digit(16) + digit(32) + digit(64) + digit(128)

BitAnd(a, b) == Bitwise(LAMBDA i, j : i * j, a, b)
BitOr(a, b)  == Bitwise(LAMBDA i, j : i + j - i * j, a, b)
BitXor(a, b) == Bitwise(LAMBDA i, j : (i + j) % 2, a, b)

Result(r, p) == [v |-> r, p |-> WithZN(p, r)]

AND(a, val, p) == Result(BitAnd(a, val), p)
ORA(a, val, p) == Result(BitOr(a, val), p)
EOR(a, val, p) == Result(BitXor(a, val), p)

BIT(a, val, p) ==
    With(With(With(p, "Z", BitAnd(a, val) = 0), "V", (val \div 64) % 2 = 1), "N", Negative(val))

-----------------------------------------------------------------------------
(* Shifts and rotations                                                     *)
ASL(val, p) == Result((2 * val) % 256, With(p, "C", Negative(val)))
LSR(val, p) == Result(val \div 2, With(p, "C", val % 2 = 1))

\* Mutant of ROL: the bit shifted out stays.
ROLUnwrapped(val, p) == Result(2 * val + Carry(p), With(p, "C", Negative(val)))

\* Mutant of ROL: the new carry is rotated in.
ROLNewCarry(val, p) ==
    LET q == With(p, "C", Negative(val)) IN Result(((2 * val) % 256) + Carry(q), q)

ROL(val, p) == Result(((2 * val) % 256) + Carry(p), With(p, "C", Negative(val)))

\* Mutant of ROR: a zero is shifted in.
RORShifts(val, p) == Result(val \div 2, With(p, "C", val % 2 = 1))

ROR(val, p) == Result(val \div 2 + 128 * Carry(p), With(p, "C", val % 2 = 1))
=============================================================================
