----------------------------- MODULE MCConsole -----------------------------
(***************************************************************************)
(* Cartridges in the console.  Their handlers' 17 or 20 cycles fit a frame *)
(* of 15 + 7.                                                              *)
(***************************************************************************)
EXTENDS Console, Listings, TLC

(* A program that runs into bytes that do not decode.                       *)
Broken ==
    [code |-> Assemble(At(0, CTRL(1)) ++ At(3, BNE(3)) ++ At(10, RTI)),
     reset |-> 0, nmi |-> 10, irq |-> 10]

MCCartridge == {"polling", "waiting", "calling", "broken"}
MCProgram == [c \in MCCartridge |->
                 CASE c = "polling"  -> Polling
                   [] c = "waiting"  -> Waiting
                   [] c = "calling"  -> Calling
                   [] c = "broken"   -> Broken]

Main  == [c \in MCCartridge |-> MainCode(c)]
SetUp == [c \in MCCartridge |-> Ways(c, Reached(c, {FromReset(c)}, "ctrl"), "ctrl")]
HandlerRank == [c \in MCCartridge |-> Ways(c, HandlerCode(c), "rti")]
Room == 2

(* That these programs keep their stack and their time: the set-up of each  *)
(* and the handler, with the subroutine that the handler of "calling" calls. *)
ASSUME TimingAssumption ==
    \A c \in MCCartridge :
        /\ AsksInTime(c, SetUp[c])
        /\ HandlerFits(c, Main[c], HandlerRank[c], Room)
=============================================================================
