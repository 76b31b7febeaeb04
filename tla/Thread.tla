------------------------------- MODULE Thread -------------------------------
(***************************************************************************)
(* What a program may take for granted: its instructions happen one at a   *)
(* time, each whole, in the order the program says, on a stack of its own  *)
(* from which it pops what it pushed.  There are no cycles, no interrupts  *)
(* and no stack page here.  What the program shares with its interrupt     *)
(* handler (PPUSTATUS) may answer anything.                                *)
(***************************************************************************)
EXTENDS Integers, Sequences

CONSTANT W  \* the values of a byte

VARIABLES
    code,   \* the program, which does not change
    tpc,    \* the next instruction
    tp,     \* the flags
    tstack  \* the bytes on the stack, the top first

tvars == <<code, tpc, tp, tstack>>

Init(c, start) ==
    /\ code = c
    /\ tpc = start
    /\ tp = 1
    /\ tstack = <<0, 0>>

Op == code[tpc]
Following(n) == (tpc + n) % (W * W)
Half == W \div 2
SetsN(b) == tp' = (IF b THEN Half ELSE 0) + (tp % Half)
Bytes(w) == <<w % W, w \div W>>
WordAt(i) == W * tstack[i + 1] + tstack[i]
Drop(n) == SubSeq(tstack, n + 1, Len(tstack))

Straight ==
    /\ Op.kind \in {"plain", "ctrl"}
    /\ tpc' = Following(Op.size)
    /\ UNCHANGED <<tp, tstack>>

Computes ==
    /\ Op.kind \in {"data", "index", "status"}
    /\ tpc' = Following(Op.size)
    /\ \E b \in BOOLEAN : SetsN(b)
    /\ UNCHANGED tstack

Jumps ==
    /\ \/ Op.kind = "jmp" /\ tpc' = Op.arg
       \/ Op.kind = "bpl" /\ tpc' = IF tp >= Half THEN Following(Op.size) ELSE Op.arg
       \/ Op.kind = "branch" /\ tpc' \in {Following(Op.size), Op.arg}
    /\ UNCHANGED <<tp, tstack>>

Calls ==
    /\ Op.kind = "jsr"
    /\ tpc' = Op.arg
    /\ tstack' = Bytes(Following(2)) \o tstack
    /\ UNCHANGED tp

Returns ==
    /\ Op.kind = "rts"
    /\ tpc' = (WordAt(1) + 1) % (W * W)
    /\ tstack' = Drop(2)
    /\ UNCHANGED tp

Breaks(irq) ==
    /\ Op.kind = "brk"
    /\ tpc' = irq
    /\ tp' = 2 * (tp \div 2) + 1
    /\ tstack' = <<tp>> \o Bytes(Following(1)) \o tstack

EndsBreak ==
    /\ Op.kind = "rti"
    /\ tpc' = WordAt(2)
    /\ tp' = tstack[1]
    /\ tstack' = Drop(3)

Pushes ==
    /\ tpc' = Following(1)
    /\ \/ Op.kind = "pha" /\ \E a \in {0, Half} : tstack' = <<a>> \o tstack
       \/ Op.kind = "php" /\ tstack' = <<tp>> \o tstack
    /\ UNCHANGED tp

Pulls ==
    /\ tpc' = Following(1)
    /\ \/ Op.kind = "pla" /\ SetsN(tstack[1] >= Half)
       \/ Op.kind = "plp" /\ tp' = tstack[1]
    /\ tstack' = Drop(1)

\* TXS: the stack is whatever lies above the new stack pointer.
Moves ==
    /\ Op.kind = "txs"
    /\ tpc' = Following(1)
    /\ Len(tstack') = W - 1 - Op.arg
    /\ UNCHANGED tp

Next(irq) ==
    /\ \/ Straight \/ Computes \/ Jumps
       \/ Calls \/ Returns \/ Breaks(irq) \/ EndsBreak
       \/ Pushes \/ Pulls \/ Moves
    /\ UNCHANGED code
=============================================================================
