---------------------------- MODULE MCColorTest ----------------------------
EXTENDS ColorTest

\* The registers that matter hold any of two values, the others 0.
PowerOnPpus == {u \in PpuPowerOn({0, 255}) : u.oamaddr = 0 /\ u.oamdata = 0 /\ u.scroll = 0}

PowerOnPads == PadPowerOn({0, 255})

TwoHands == {{}, {"Right"}, {"A", "Right"}}

\* Mirroring, bit 0, is of no concern; the trainer is bit 2.
GoodFiles == {FileOf(2, 0), FileOf(2, 5), FileOf(1, 4)}

Cut(whole, n) == [whole EXCEPT !.size = n]

WithoutChr(whole) == [whole EXCEPT !.chr = 0, !.size = @ - ChrBank]

(* What is wrong with the others: the magic bytes, the mapper, also one     *)
(* above 15, and an end that comes too early, by what the trainer takes,    *)
(* also where no CHR comes after the PRG.                                   *)
BadFiles ==
    {[FileOf(1, 0) EXCEPT !.magic = FALSE], FileOf(2, 16), [FileOf(2, 0) EXCEPT !.flags7 = 16]}
    \union {Cut(FileOf(1, 0), n) : n \in {0, 15, 16, 16399, 16400, 24591}}
    \union {Cut(FileOf(1, 4), n) : n \in {16, 527, 528, 24592, 25103}}
    \union {Cut(WithoutChr(FileOf(1, 4)), n) : n \in {527, 528, 16400, 16911}}

AnyFile == GoodFiles \union BadFiles
=============================================================================
