----------------------------- MODULE ColorTest -----------------------------
(***************************************************************************)
(* A color tester in the manner of the demo that the repository ships      *)
(* (vendor/color_test_nosprites): the reset code waits for the vertical    *)
(* blank, loads the palette through PPUDATA and turns the NMI on; at each  *)
(* NMI the handler shows the color, polls the controller, and counts the   *)
(* color up when Right, alone, was just pressed.  The routines are the     *)
(* demo's, cut to one button, one poll instead of two, and two copies of    *)
(* the palette instead of 16.                                              *)
(***************************************************************************)
EXTENDS Emulator, Sequences

PaletteAt == \hC100
NmiAt     == \hC200
PollAt    == \hC300

color        == 1
gamepad      == 3
gamepad_last == 4

Table == <<0, \h16, \h2D, \h30>>

Lo(w) == w % 256
Hi(w) == w \div 256

PPU_LATCH(addr) ==
    <<k.LDA.ABS, \h02, \h20, k.LDA.IMM, Hi(addr), k.STA.ABS, \h06, \h20,
      k.LDA.IMM, Lo(addr), k.STA.ABS, \h06, \h20>>

\* reset: the NMI off, and a wait for the vertical blank.
reset ==
    <<k.LDX.IMM, 0, k.STX.ABS, \h00, \h20,
      k.BIT.ABS, \h02, \h20, k.BPL.REL, \hFB>>

\* main: the palette, then the NMI on, then main_loop.
main ==
    PPU_LATCH(\h3F00) \o
    <<k.LDY.IMM, 2,
        k.LDX.IMM, 0,
          k.LDA.ABSX, Lo(PaletteAt), Hi(PaletteAt), k.STA.ABS, \h07, \h20,
          k.INX.IMPL, k.CPX.IMM, 4, k.BCC.REL, \hF5,
        k.DEY.IMPL, k.BNE.REL, \hF0,
      k.LDA.IMM, \h80, k.STA.ABS, \h00, \h20>>

CodeAt == \hC000

main_loop == CodeAt + Len(reset) + Len(main)

PAD_R == \h80

nmi ==
    PPU_LATCH(\h3F00) \o
    <<k.LDA.ZP, color, k.STA.ABS, \h07, \h20,
      k.JSR.ABS, Lo(PollAt), Hi(PollAt),
      k.LDA.ZP, gamepad_last, k.BNE.REL, \h0F,
      k.LDA.ZP, gamepad, k.CMP.IMM, PAD_R, k.BNE.REL, \h09,
        k.LDA.ZP, color, k.CLC.IMPL, k.ADC.IMM, 1, k.AND.IMM, \h0F, k.STA.ZP, color,
      k.LDA.ZP, gamepad, k.STA.ZP, gamepad_last,
      k.RTI.IMPL>>

gamepad_poll ==
    <<k.LDA.IMM, 1, k.STA.ABS, \h16, \h40, k.LDA.IMM, 0, k.STA.ABS, \h16, \h40,
      k.LDX.IMM, 8,
        k.PHA.IMPL, k.LDA.ABS, \h16, \h40, k.AND.IMM, 3, k.CMP.IMM, 1, k.PLA.IMPL,
        k.ROR.A, k.DEX.IMPL, k.BNE.REL, \hF3,
      k.STA.ZP, gamepad, k.LDA.ZP, gamepad,
      k.RTS.IMPL>>

Vectors == <<Lo(NmiAt), Hi(NmiAt), Lo(CodeAt), Hi(CodeAt), Lo(CodeAt), Hi(CodeAt)>>

\* Where each part is linked to, in the last 16 kB of the addresses.
Parts ==
    {[at |-> CodeAt, bytes |-> reset \o main \o <<k.JMP.ABS, Lo(main_loop), Hi(main_loop)>>],
     [at |-> PaletteAt, bytes |-> Table], [at |-> NmiAt, bytes |-> nmi],
     [at |-> PollAt, bytes |-> gamepad_poll], [at |-> \hFFFA, bytes |-> Vectors]}

Places(part) == part.at .. (part.at + Len(part.bytes) - 1)

Linked ==
    [a \in UNION {Places(part) : part \in Parts} |->
        LET part == CHOOSE q \in Parts : a \in Places(q) IN part.bytes[a - part.at + 1]]

(* A file with the program in its last bank of PRG, one of CHR, and a       *)
(* trainer if flags6 says so.                                               *)
FileOf(banks, flags6) ==
    LET skip  == IF (flags6 \div 4) % 2 = 1 THEN 512 ELSE 0
        start == skip + banks * Bank - \h10000     \* of address 0 in the data
    IN  [magic |-> TRUE, prg |-> banks, chr |-> 1, flags6 |-> flags6, flags7 |-> 0,
         size |-> HeaderSize + skip + banks * Bank + ChrBank,
         data |-> [i \in {start + a : a \in DOMAIN Linked} |-> Linked[i - start]]]

-----------------------------------------------------------------------------
(* What the program is to do with the polls so far: the color counts the    *)
(* times at which Right alone is held after nothing was.                    *)
Presses(n) ==
    {j \in 1 .. n : polled[j] = {"Right"} /\ (j = 1 \/ polled[j - 1] = {})}

ColorAfter(n) ==
    LET count[j \in 0 .. MaxFrames] == IF j = 0 THEN 0 ELSE count[j - 1] + One(j \in Presses(n))
    IN  count[n] % 16

(* When a frame is over, its NMI has been handled to the end: the buttons   *)
(* arrived in their order, none lost, none twice, and the program counted   *)
(* the presses (controller.cpp:25, memory.cpp:44, alu.cpp:477).             *)
PressesCounted ==
    FrameOver =>
        /\ Peek(cpu.bus.ram, color) = ColorAfter(Len(polled))
        /\ polled # <<>> => Peek(cpu.bus.ram, gamepad) = RegisterOf(polled[Len(polled)])

(* And the picture's palette is the table, with the color at its start that *)
(* the program had at the last NMI: what the reset code wrote through       *)
(* PPUADDR and PPUDATA was not disturbed by an NMI, which writes them too,  *)
(* whatever PPUCTRL held at power on (ppu.cpp:174, cpu.cpp:71).             *)
PaletteAsWritten ==
    FrameOver /\ polled # <<>> =>
        \A cell \in 0 .. 31 :
            Peek(cpu.bus.ppu.palette, cell) =
                CASE cell = 0 -> ColorAfter(Len(polled) - 1)
                  [] cell \in 1 .. 7 -> Table[(cell % 4) + 1]
                  [] OTHER -> 0

(* The program runs on, from every file that is whole and for Mapper0, with *)
(* a trainer or without, in one bank or in two: it is where it was linked   *)
(* to, and nothing it does throws (cartridge.cpp:67, alu.cpp:494).          *)
RunsFromGoodFiles == GoodFile => phase \notin {"refused", "stopped"}
=============================================================================
