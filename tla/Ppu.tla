-------------------------------- MODULE Ppu --------------------------------
(***************************************************************************)
(* The PPU's registers and memory (lib/ppu/ppu.cpp), as the CPU reaches    *)
(* them.  A PPU is a record; a register access is an operator from the     *)
(* record, and the byte written, to the record after it.                   *)
(*                                                                         *)
(* Memory is kept sparse, as a function on the cells that do not hold 0,   *)
(* which is what every cell is constructed with.                           *)
(***************************************************************************)
EXTENDS Integers

Peek(mem, cell) == IF cell \in DOMAIN mem THEN mem[cell] ELSE 0

Poke(mem, cell, v) ==
    [c \in (DOMAIN mem \ {cell}) \union (IF v = 0 THEN {} ELSE {cell}) |->
        IF c = cell THEN v ELSE mem[c]]

Blank == [c \in {} |-> 0]

\* What the bus answers where nothing is.
OpenBus == \hAA

(* The registers are not initialised: the constructor leaves in them what   *)
(* the given set holds.                                                     *)
PpuPowerOn(Garbage) ==
    [ctrl : Garbage, mask : Garbage, status : Garbage, oamaddr : Garbage,
     oamdata : Garbage, scroll : Garbage, addr : Garbage,
     names : {Blank}, palette : {Blank}]

Bit(v, n) == (v \div 2^n) % 2 = 1

Greyscale(u)     == Bit(u.mask, 0)
InVblank(u)      == Bit(u.status, 7)
IsNmiEnabled(u)  == Bit(u.ctrl, 7)

-----------------------------------------------------------------------------
(* PPU::read and PPU::write: the memory behind PPUDATA                      *)
Between(first, addr, last) == first <= addr /\ addr <= last

Nametables(addr) == Between(\h2000, addr, \h2FFF)
NameMirror(addr) == Between(\h3000, addr, \h3EFF)
PaletteRam(addr) == Between(\h3F00, addr, \h3FFF)

NameCell(addr) == IF Nametables(addr) THEN addr - \h2000 ELSE addr - \h3000

PpuRead(u, addr) ==
    CASE Nametables(addr) \/ NameMirror(addr) -> Peek(u.names, NameCell(addr))
      [] PaletteRam(addr) ->
           LET v == Peek(u.palette, addr % 32)
           IN  IF Greyscale(u) THEN 16 * ((v \div 16) % 4) ELSE v
      [] OTHER -> OpenBus

\* Mutant of PpuWrite: the palette without its mirrors.
PpuWriteUnmirrored(u, addr, v) ==
    CASE Nametables(addr) \/ NameMirror(addr) -> [u EXCEPT !.names = Poke(@, NameCell(addr), v)]
      [] PaletteRam(addr) -> [u EXCEPT !.palette = Poke(@, addr % 256, v)]
      [] OTHER -> u

PpuWrite(u, addr, v) ==
    CASE Nametables(addr) \/ NameMirror(addr) -> [u EXCEPT !.names = Poke(@, NameCell(addr), v)]
      [] PaletteRam(addr) -> [u EXCEPT !.palette = Poke(@, addr % 32, v)]
      [] OTHER -> u

-----------------------------------------------------------------------------
(* The registers                                                            *)
SetPPUCTRL(u, v)   == [u EXCEPT !.ctrl = v]
SetPPUMASK(u, v)   == [u EXCEPT !.mask = v]
SetOAMADDR(u, v)   == [u EXCEPT !.oamaddr = v]
SetOAMDATA(u, v)   == [u EXCEPT !.oamdata = v]
SetPPUSCROLL(u, v) == [u EXCEPT !.scroll = v]

\* Mutant of AfterPPUSTATUS: the flag stays.
StatusKept(u) == u

AfterPPUSTATUS(u) == [u EXCEPT !.status = @ % 128]

\* Mutant of SetPPUADDR: the first byte goes into the low half.
SetPPUADDRLowFirst(u, v) == [u EXCEPT !.addr = (@ \div 256) + 256 * v]

\* One byte at a time, the high one first: there is no latch to reset.
SetPPUADDR(u, v) == [u EXCEPT !.addr = (256 * @ + v) % 65536]

\* After each access the address moves on, in steps that bit 2 of PPUCTRL sets.
Increment(u) == [u EXCEPT !.addr = (@ + (IF Bit(u.ctrl, 2) THEN 32 ELSE 1)) % 65536]

GetPPUDATA(u)    == PpuRead(u, u.addr)
AfterPPUDATA(u)  == Increment(u)
SetPPUDATA(u, v) == Increment(PpuWrite(u, u.addr, v))

\* render_to_framebuffer, but for the picture itself (module Picture).
SetVblank(u) == [u EXCEPT !.status = 128 + (@ % 128)]
=============================================================================
