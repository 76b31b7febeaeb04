-------------------------------- MODULE Flow --------------------------------
(***************************************************************************)
(* What a program owes to its stack and to the clock.  A certificate is a  *)
(* set of positions that its code does not leave: an address, and what the *)
(* code has on the stack there.  That a set is one can be decided by       *)
(* looking at each of its positions; what follows for the machine, for     *)
(* NMIs at any cycle, is in CpuProofs and ConsoleProofs.                   *)
(***************************************************************************)
EXTENDS Cpu

\* An address, and for each byte pushed, the last one last, what it may be.
Position == Word \X Seq(SUBSET Byte)

Without(s, n) == SubSeq(s, 1, Len(s) - n)
WithWord(s, w) == Append(Append(s, {Hi(w)}), {Lo(w)})
WordsOn(s) == {MakeWord(hi, lo) : hi \in s[Len(s) - 1], lo \in s[Len(s)]}

OpcodeAt(c, x) == Program[c].code[x[1]]

Pulls(kind) == CASE kind \in {"pla", "plp"} -> 1
                 [] kind = "rts"            -> 2
                 [] kind = "rti"            -> 3
                 [] OTHER                   -> 0

\* The positions that the instruction at a position may lead to.
Moves(c, x) ==
    LET op == OpcodeAt(c, x)
        s  == x[2]
        on == Plus(x[1], op.size)
    IN  CASE op.kind \in {"bpl", "branch"} -> {<<on, s>>, <<op.arg, s>>}
          [] op.kind = "jmp"               -> {<<op.arg, s>>}
          [] op.kind = "jsr"               -> {<<op.arg, WithWord(s, Plus(x[1], 2))>>}
          [] op.kind = "rts" -> {<<Plus(w, 1), Without(s, 2)>> : w \in WordsOn(s)}
          [] op.kind = "rti" -> {<<w, Without(s, 3)>> : w \in WordsOn(Without(s, 1))}
          [] op.kind = "brk" -> {<<Program[c].irq, Append(WithWord(s, Plus(x[1], 1)), Byte)>>}
          [] op.kind \in {"pha", "php"}    -> {<<on, Append(s, Byte)>>}
          [] op.kind \in {"pla", "plp"}    -> {<<on, Without(s, 1)>>}
          [] op.kind = "txs"               -> {<<on, [n \in 1 .. (W - 1 - op.arg) |-> Byte]>>}
          [] OTHER                         -> {<<on, s>>}

\* Where a stretch of code ends: at an opcode that does not decode, at a first
\* instruction of some kind, a handler at the RTI that finds nothing of its own.
Ends(c, x, goal) ==
    LET kind == OpcodeAt(c, x).kind
    IN  kind = "invalid" \/ (kind = goal /\ (goal = "rti" => x[2] = <<>>))

Closed(c, P, goal) ==
    /\ P \subseteq Position
    /\ \A x \in P : Len(x[2]) < W
    /\ \A x \in P : ~Ends(c, x, goal) =>
         /\ Pulls(OpcodeAt(c, x).kind) <= Len(x[2])
         /\ Moves(c, x) \subseteq P

FromReset(c) == <<Program[c].reset, <<{0}, {0}>>>>
FromNmi(c)   == <<Program[c].nmi, <<>>>>

\* The program never pulls more than it pushed, its handler no more than that, and
\* under the program's bytes there is room for nest NMIs, each with the room bytes
\* its handler pushes at most.
KeepsStack(c, main, handler, room, nest) ==
    /\ FromReset(c) \in main /\ Closed(c, main, "none")
    /\ FromNmi(c) \in handler /\ Closed(c, handler, "rti")
    /\ \A x \in main : Len(x[2]) + nest * (3 + room) < W
    /\ \A x \in handler : Len(x[2]) <= room /\ OpcodeAt(c, x).kind # "txs"

-----------------------------------------------------------------------------
(* Time: rank bounds the cycles from a position to the end of the stretch.  *)
MostCycles(op) == IF op.indexed THEN op.cycles + 1 ELSE op.cycles

Bounds(c, rank, goal) ==
    /\ Closed(c, DOMAIN rank, goal)
    /\ rank \in [DOMAIN rank -> Nat]
    /\ \A x \in DOMAIN rank :
         /\ rank[x] >= MostCycles(OpcodeAt(c, x))
         /\ ~Ends(c, x, goal) =>
              \A y \in Moves(c, x) : rank[x] >= MostCycles(OpcodeAt(c, x)) + rank[y]

-----------------------------------------------------------------------------
(* Where a machine is in such code.  The bytes from the cell `from` down    *)
(* are as s says, as far as the stack pointer.                              *)
Lies(s, from, sp, mem) ==
    /\ sp = from - Len(s)
    /\ \A n \in 1 .. Len(s) : mem[from + 1 - n] \in s[n]

InCode(P, a, from, sp, mem) == \E x \in P : x[1] = a /\ Lies(x[2], from, sp, mem)

\* The code that runs in the nth NMI's handler, or in the program if n is 0: where
\* its bytes begin, and where it is, or was when the next NMI came.
From(n)  == IF n = 0 THEN W - 1 ELSE frames[n].sp - 3
NowPc(n) == IF n = Len(frames) THEN pc ELSE frames[n + 1].pc
NowSp(n) == IF n = Len(frames) THEN stk.sp ELSE frames[n + 1].sp
Within(P, n) == InCode(P, NowPc(n), From(n), NowSp(n), stk.mem)

(* The inductive invariant of programs with certificates: the program and   *)
(* each handler begun are where their certificates have them, and the       *)
(* handlers that may still come find room.                                  *)
Disciplined(main, handler, room, nest) ==
    /\ Len(frames) <= nest
    /\ Within(main[cart], 0)
    /\ \A n \in 1 .. Len(frames) :
         /\ Within(handler[cart], n)
         /\ From(n) >= (nest - n) * (3 + room) + room
=============================================================================
