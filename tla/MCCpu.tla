------------------------------- MODULE MCCpu -------------------------------
(* The cartridges for any client of the CPU.                                *)
EXTENDS Listings

(* A handler that does not decode.                                          *)
Broken ==
    [code |-> Assemble(At(0, NOP) ++ At(1, JMP(0))), reset |-> 0, nmi |-> 40, irq |-> 40]

MCCartridge == {"polling", "calling", "breaking", "broken"}
MCProgram == [c \in MCCartridge |->
                 CASE c = "polling"  -> Polling
                   [] c = "calling"  -> Calling
                   [] c = "breaking" -> Breaking
                   [] c = "broken"   -> Broken]

Main    == [c \in MCCartridge |-> MainCode(c)]
Handler == [c \in MCCartridge |-> HandlerCode(c)]
Room == 2

(* These programs keep their stack, with the handlers of NMIs in those of   *)
(* others as deep as the run takes them.                                    *)
ASSUME StackAssumption ==
    \A c \in MCCartridge : KeepsStack(c, Main[c], Handler[c], Room, MaxNest)
=============================================================================
