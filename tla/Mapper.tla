------------------------------- MODULE Mapper -------------------------------
(***************************************************************************)
(* What answers for the addresses from 0x4020 up: Mapper0 of a cartridge   *)
(* file (lib/cartridge/cartridge.cpp), or the VectorMapper of the unit     *)
(* tests (app/test-cpu.cpp).  PRG memory is a function on the indices of   *)
(* the bytes that are not filler.                                          *)
(***************************************************************************)
EXTENDS Integers, Sequences, Ppu

Bank == 16 * 1024

\* A sequence of bytes, from index 0 on.
Image(bytes) == [i \in 0 .. Len(bytes) - 1 |-> bytes[i + 1]]

VectorMapper(prg, isr, entry) == [kind |-> "Vector", prg |-> prg, isr |-> isr, entry |-> entry]

Mapper0(banks, prg) == [kind |-> "Mapper0", prg |-> prg, banks |-> banks]

(* Mapper0 throws below 0x6000, reads and writes alike.                     *)
Throws(m, addr) == m.kind = "Mapper0" /\ addr < \h6000

(* Where Mapper0 finds an address in its PRG.  With one bank the index is   *)
(* negative below 0xC000, and the access undefined.                         *)
PrgIndex(m, addr) == addr - (IF m.banks = 1 THEN \h4000 ELSE 0) - \h8000

\* The filler is 0xAA: VectorMapper answers it beyond the bytes it was given.
ByteAt(prg, i) == IF i \in DOMAIN prg THEN prg[i] ELSE OpenBus

VectorRead(m, addr) ==
    CASE addr < \h8000 -> OpenBus
      [] addr = \hFFFC -> m.entry % 256
      [] addr = \hFFFD -> m.entry \div 256
      [] addr = \hFFFE -> m.isr % 256
      [] addr = \hFFFF -> m.isr \div 256
      [] Between(\h8000, addr, \hFFFB) -> ByteAt(m.prg, addr - \h8000)

Mapper0Read(m, addr) ==
    IF addr < \h8000 THEN OpenBus ELSE ByteAt(m.prg, PrgIndex(m, addr))

PrgRead(m, addr) == IF m.kind = "Vector" THEN VectorRead(m, addr) ELSE Mapper0Read(m, addr)

\* Nothing protects the ROM: Mapper0 stores the byte.
PrgWrite(m, addr, v) ==
    IF m.kind = "Vector" \/ addr < \h8000 THEN m
    ELSE LET i == PrgIndex(m, addr)
         IN  [m EXCEPT !.prg = [j \in DOMAIN @ \union {i} |-> IF j = i THEN v ELSE @[j]]]
=============================================================================
