-------------------------------- MODULE Wide --------------------------------
(***************************************************************************)
(* Arithmetic on numbers wider than a byte, as programs do it on an 8-bit  *)
(* CPU: byte by byte, the carry flag passed on from one instruction to the *)
(* next while other instructions, and NMIs, come in between.  The numbers  *)
(* have Size bytes, the lowest first.                                      *)
(***************************************************************************)
EXTENDS Alu, Sequences

CONSTANTS
    Size,    \* bytes in a number
    Sample   \* the bytes that occur in them

ASSUME WideAssumption == Size \in Nat \ {0} /\ Sample \subseteq Byte

VARIABLES
    job,   \* the calculation that runs
    x, y,  \* its operands
    r,     \* the bytes of the result so far
    p,     \* P_
    saved  \* what an NMI pushed of P_; <<>> when none runs

wideVars == <<job, x, y, r, p, saved>>

Number == [1 .. Size -> Sample]
Job == {"add", "subtract", "compare", "double", "halve"}

(* The bytes and the flags of a calculation keep their types.               *)
WideTypeOK ==
    /\ job \in Job
    /\ x \in [1 .. Size -> Byte] /\ y \in [1 .. Size -> Byte]
    /\ r \in Seq(Byte) /\ Len(r) <= Size
    /\ p \subseteq Flag
    /\ saved \in Seq(Byte) /\ Len(saved) <= 1

\* The calculation starts with CLC, SEC, or nothing before ASL and LSR.
Init ==
    /\ job \in Job
    /\ x \in Number
    /\ y \in IF job \in {"double", "halve"} THEN {x} ELSE Number
    /\ r = <<>>
    /\ p = IF job = "add" THEN {} ELSE {"C"}
    /\ saved = <<>>

Running == saved = <<>> /\ Len(r) < Size
Next1 == Len(r) + 1      \* the next byte, going up
Last  == Size - Len(r)   \* the next byte, going down

\* LDA x,i ; ADC y,i ; STA r,i
AddByte ==
    /\ Running /\ job = "add"
    /\ LET s == ADC(x[Next1], y[Next1], p)
       IN  r' = Append(r, s.v) /\ p' = s.p
    /\ UNCHANGED <<job, x, y, saved>>

\* LDA x,i ; SBC y,i ; STA r,i.  SBC leaves the borrow in the carry flag and takes its
\* complement from there, so the program inverts the flag in between.
SubtractByte ==
    /\ Running /\ job = "subtract"
    /\ LET s == SBC(x[Next1], y[Next1], p)
       IN  r' = Append(r, s.v) /\ p' = With(s.p, "C", "C" \notin s.p)
    /\ UNCHANGED <<job, x, y, saved>>

\* LDA x,i ; CMP y,i from the highest byte down, up to the first difference (BNE).
CompareByte ==
    /\ Running /\ job = "compare"
    /\ r = <<>> \/ "Z" \in p
    /\ r' = Append(r, 0)
    /\ p' = CMP(x[Last], y[Last], p)
    /\ UNCHANGED <<job, x, y, saved>>

\* ASL x,1 ; ROL x,2 ; ...
DoubleByte ==
    /\ Running /\ job = "double"
    /\ LET s == IF r = <<>> THEN ASL(x[1], p) ELSE ROL(x[Next1], p)
       IN  r' = Append(r, s.v) /\ p' = s.p
    /\ UNCHANGED <<job, x, y, saved>>

\* LSR x,n ; ROR x,n-1 ; ...
HalveByte ==
    /\ Running /\ job = "halve"
    /\ LET s == IF r = <<>> THEN LSR(x[Size], p) ELSE ROR(x[Last], p)
       IN  r' = <<s.v>> \o r /\ p' = s.p
    /\ UNCHANGED <<job, x, y, saved>>

\* Between two bytes of all calculations but "compare": LDX, INX, TAY, AND, ...
OtherInstruction ==
    /\ Running /\ job # "compare" /\ r # <<>>
    /\ \E v \in {0, 1, 128} : p' = WithZN(p, v)
    /\ UNCHANGED <<job, x, y, r, saved>>

\* An NMI anywhere; its handler leaves any flags; RTI.
Interrupt ==
    /\ saved = <<>>
    /\ saved' = <<StatusByte(p)>>
    /\ \E c \in SUBSET {"C", "Z"} : p' = (p \ {"C", "Z"}) \union c
    /\ UNCHANGED <<job, x, y, r>>

ReturnFromInterrupt ==
    /\ saved # <<>>
    /\ p' = Flags(saved[1])
    /\ saved' = <<>>
    /\ UNCHANGED <<job, x, y, r>>

Next == \/ AddByte \/ SubtractByte \/ CompareByte \/ DoubleByte \/ HalveByte
        \/ OtherInstruction \/ Interrupt \/ ReturnFromInterrupt

Spec == Init /\ [][Next]_wideVars

-----------------------------------------------------------------------------
Done == saved = <<>> /\ Len(r) = Size

\* What a one is worth in byte n + 1.
Place[n \in 0 .. Size] == IF n = 0 THEN 1 ELSE 256 * Place[n - 1]

\* The numbers that the lowest n bytes of b stand for.
Value(b) ==
    LET v[n \in 0 .. Len(b)] == IF n = 0 THEN 0 ELSE v[n - 1] + b[n] * Place[n - 1] IN v

Num(b) == Value(b)[Len(b)]
Top == Place[Size]

(* ADC chained over the bytes of two numbers adds them: the result and the  *)
(* last carry together are the sum (alu.cpp:615-624).                       *)
AdditionExact ==
    Done /\ job = "add" => Num(r) + Top * Carry(p) = Num(x) + Num(y)

(* SBC chained over the bytes of two numbers subtracts them, if the carry   *)
(* is inverted after each (alu.cpp:757-767).                                *)
SubtractionExact ==
    Done /\ job = "subtract" => Num(r) - Top * (1 - Carry(p)) = Num(x) - Num(y)

(* After a comparison from the highest byte down the flags say which number *)
(* is larger: C for at least, Z for equal, and N for less (alu.cpp:674).    *)
ComparisonOrders ==
    saved = <<>> /\ job = "compare" /\ (Done \/ (r # <<>> /\ "Z" \notin p))
        => /\ "C" \in p <=> Num(x) >= Num(y)
           /\ "Z" \in p <=> Num(x) = Num(y)
           /\ "N" \in p <=> Num(x) < Num(y)

(* Shifts and rotations chained over a number double and halve it; the bit  *)
(* that is shifted out is the carry (alu.cpp:626, 711, 735, 746).           *)
DoublingExact ==
    Done /\ job = "double" => Num(r) + Top * Carry(p) = 2 * Num(x)
HalvingExact ==
    Done /\ job = "halve" => 2 * Num(r) + Carry(p) = Num(x)
=============================================================================
