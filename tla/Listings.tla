------------------------------ MODULE Listings ------------------------------
(***************************************************************************)
(* Programs for TLC, written as a listing from addresses to instructions.  *)
(* Addresses are 0 .. W * W - 1; what lies between the listed instructions *)
(* does not decode.                                                        *)
(***************************************************************************)
EXTENDS Flow

CONSTANT Longest  \* bound: the cycles of the longest instructions

I(kind, size, cycles, arg) ==
    [kind |-> kind, size |-> size, cycles |-> IF cycles > Longest THEN Longest ELSE cycles,
     indexed |-> FALSE,
     arg |-> arg, near |-> FALSE]

Invalid == I("invalid", 1, 2, 0)
Indexed(op) == [op EXCEPT !.indexed = TRUE, !.near = TRUE]
Near(op) == [op EXCEPT !.near = TRUE]
Far(op)  == [op EXCEPT !.near = FALSE]

TXS(b)   == I("txs", 1, 2, b)
NOP      == I("plain", 1, 2, 0)
LDX      == I("index", 2, 2, 0)
LDA      == I("data", 2, 2, 0)
LDAX     == Indexed(I("data", 3, 4, 0))
CTRL(b)  == I("ctrl", 3, 4, b)
BIT2002  == I("status", 3, 4, 0)
BPL(a)   == I("bpl", 2, 2, a)
BNE(a)   == I("branch", 2, 2, a)
JMP(a)   == I("jmp", 3, 3, a)
JSR(a)   == I("jsr", 3, 6, a)
RTS      == I("rts", 1, 6, 0)
RTI      == I("rti", 1, 6, 0)
BRK      == I("brk", 1, 7, 0)
PHA      == I("pha", 1, 3, 0)
PHP      == I("php", 1, 3, 0)
PLA      == I("pla", 1, 4, 0)
PLP      == I("plp", 1, 4, 0)

Assemble(listing) == [a \in Word |-> IF a \in DOMAIN listing THEN listing[a] ELSE Invalid]
At(a, op) == [x \in {a} |-> op]
f ++ g == [x \in DOMAIN f \cup DOMAIN g |-> IF x \in DOMAIN f THEN f[x] ELSE g[x]]

(* The shape of vendor/color_test: set the stack up, wait for a vertical    *)
(* blank by polling PPUSTATUS, turn the NMI on, then loop.                  *)
Polling ==
    [code |-> Assemble(At(0, TXS(W - 1)) ++ At(1, CTRL(0)) ++ At(4, BIT2002) ++ At(7, BPL(4))
                ++ At(9, CTRL(1)) ++ At(12, LDAX) ++ At(15, JMP(12))
                ++ At(40, PHA) ++ At(41, BIT2002) ++ At(44, PLA) ++ At(45, RTI)),
     reset |-> 0, nmi |-> 40, irq |-> 40]

(* A program that waits for every frame, after work of any length, while    *)
(* its handler acknowledges the vertical blank.                             *)
Waiting ==
    [code |-> Assemble(At(0, TXS(W - 1)) ++ At(1, LDA) ++ At(3, LDAX) ++ At(6, LDA) ++ At(8, LDA)
                ++ At(10, LDA) ++ At(12, CTRL(1))
                ++ At(15, BIT2002) ++ At(18, BPL(15)) ++ At(20, LDX) ++ At(22, BNE(20)) ++ At(24, JMP(15))
                ++ At(40, PHA) ++ At(41, BIT2002) ++ At(44, PLA) ++ At(45, RTI)),
     reset |-> 0, nmi |-> 40, irq |-> 40]

(* Subroutines, saved flags and branches in the program and in its handler. *)
Calling ==
    [code |-> Assemble(At(0, TXS(W - 1)) ++ At(1, CTRL(1)) ++ At(4, JSR(20)) ++ At(7, BNE(4))
                ++ At(9, JMP(4))
                ++ At(20, PHP) ++ At(21, LDX) ++ At(23, PLP) ++ At(24, RTS)
                ++ At(41, JSR(50)) ++ At(44, RTI)
                ++ At(50, NOP) ++ At(51, RTS)),
     reset |-> 0, nmi |-> 41, irq |-> 41]

(* Software interrupts, whose handler returns with an RTI of its own.       *)
Breaking ==
    [code |-> Assemble(At(0, TXS(W - 1)) ++ At(1, LDA) ++ At(3, BRK) ++ At(4, JMP(3))
                ++ At(30, LDX) ++ At(32, RTI)
                ++ At(40, PHP) ++ At(41, BPL(44)) ++ At(43, NOP) ++ At(44, PLP) ++ At(45, RTI)),
     reset |-> 0, nmi |-> 40, irq |-> 30]

-----------------------------------------------------------------------------
(* The certificate of a listing: the positions it comes to, and the longest *)
(* way from each to the end of a stretch without loops.                     *)
RECURSIVE Reached(_, _, _)
Reached(c, P, goal) ==
    LET on == P \cup UNION {Moves(c, x) : x \in {y \in P : ~Ends(c, y, goal)}}
    IN  IF on = P THEN P ELSE Reached(c, on, goal)

RECURSIVE LongestWay(_, _, _)
LongestWay(c, x, goal) ==
    LET rest == IF Ends(c, x, goal) THEN {0} ELSE {LongestWay(c, y, goal) : y \in Moves(c, x)}
    IN  MostCycles(OpcodeAt(c, x)) + (CHOOSE r \in rest : \A q \in rest : q <= r)

MainCode(c)    == Reached(c, {FromReset(c)}, "none")
HandlerCode(c) == Reached(c, {FromNmi(c)}, "rti")
Ways(c, P, goal) == [x \in P |-> LongestWay(c, x, goal)]
=============================================================================
