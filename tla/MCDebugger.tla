----------------------------- MODULE MCDebugger -----------------------------
(***************************************************************************)
(* Cartridges under the debugger: a loop with an indexed load followed by  *)
(* an instruction whose operand lies near the end of a page, a loop that   *)
(* polls for the vertical blank, and one that runs into bytes that do not  *)
(* decode.                                                                 *)
(***************************************************************************)
EXTENDS Debugger, Listings

Looping ==
    [code |-> Assemble(At(0, CTRL(1)) ++ At(3, LDX) ++ At(5, Far(LDAX)) ++ At(8, Near(LDA))
                ++ At(10, JMP(3))
                ++ At(40, BIT2002) ++ At(43, RTI)),
     reset |-> 0, nmi |-> 40, irq |-> 40]

Broken ==
    [code |-> Assemble(At(0, CTRL(0)) ++ At(3, BNE(3))), reset |-> 0, nmi |-> 40, irq |-> 40]

MCCartridge == {"looping", "waiting", "broken"}
MCProgram == [c \in MCCartridge |->
                 CASE c = "looping" -> Looping
                   [] c = "waiting" -> Waiting
                   [] c = "broken"  -> Broken]

Main    == [c \in MCCartridge |-> MainCode(c)]
Handler == [c \in MCCartridge |-> HandlerCode(c)]
Room == 1

(* These programs keep their stack, as deep as a run's NMIs go.             *)
ASSUME StackAssumption ==
    \A c \in Cartridge : KeepsStack(c, Main[c], Handler[c], Room, MaxNest)
=============================================================================
