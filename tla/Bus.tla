-------------------------------- MODULE Bus --------------------------------
(***************************************************************************)
(* What the CPU reaches by address (CPU::read and CPU::write,              *)
(* lib/cpu/memory.cpp): 2 kB of RAM, the PPU's registers, the controller   *)
(* and the cartridge.  A bus is a record; reading it yields a byte, v, and *)
(* the bus after the read, because the PPU and the controller change when  *)
(* they are read; writing it yields the bus after it and what CPU::write   *)
(* answers, ok.  An access that throws sets thrown, and none is made after *)
(* it; what the CPU does with its registers then is module Machine's.      *)
(***************************************************************************)
EXTENDS Integers, Sequences, Ppu, Joypad, Mapper

(* attached: which of "ppu" and "pad" the CPU was given; keys: the keys     *)
(* held down, which the controller asks GLFW for.                           *)
MakeBus(attached, ppu, pad, cart) ==
    [ram |-> Blank, attached |-> attached, ppu |-> ppu, pad |-> pad, keys |-> {},
     cart |-> cart, thrown |-> FALSE]

Word(w) == w % 65536

-----------------------------------------------------------------------------
(* CPU::read                                                                *)
ReadPpu(b, reg) ==
    CASE reg = 2 -> [v |-> b.ppu.status, bus |-> [b EXCEPT !.ppu = AfterPPUSTATUS(@)]]
      [] reg = 4 -> [v |-> b.ppu.oamdata, bus |-> b]
      [] reg = 7 -> [v |-> GetPPUDATA(b.ppu), bus |-> [b EXCEPT !.ppu = AfterPPUDATA(@)]]
      [] OTHER   -> [v |-> OpenBus, bus |-> b]

ReadPad(b) == [v |-> ReadJoy1(b.pad), bus |-> [b EXCEPT !.pad = AfterReadJoy1(@)]]

ReadCart(b, a) ==
    IF Throws(b.cart, a) THEN [v |-> OpenBus, bus |-> [b EXCEPT !.thrown = TRUE]]
                         ELSE [v |-> PrgRead(b.cart, a), bus |-> b]

ReadLive(b, a) ==
    CASE a < \h2000 -> [v |-> Peek(b.ram, a % \h800), bus |-> b]
      [] Between(\h2000, a, \h3FFF) /\ "ppu" \in b.attached -> ReadPpu(b, a % 8)
      [] a = \h4016 /\ "pad" \in b.attached -> ReadPad(b)
      [] a = \h4017 -> [v |-> 0, bus |-> b]
      [] a >= \h4020 -> ReadCart(b, a)
      [] OTHER -> [v |-> OpenBus, bus |-> b]

Read(b, a) == IF b.thrown THEN [v |-> OpenBus, bus |-> b] ELSE ReadLive(b, a)

HighByteToo(lo, hi) == [v |-> lo.v + 256 * hi.v, bus |-> hi.bus]
ReadHighToo(lo, a)  == HighByteToo(lo, Read(lo.bus, Word(a + 1)))

Read16(b, a) == ReadHighToo(Read(b, a), a)

-----------------------------------------------------------------------------
(* CPU::write                                                               *)
WritePpu(b, reg, v) ==
    LET to(u) == [ok |-> TRUE, bus |-> [b EXCEPT !.ppu = u]]
    IN  CASE reg = 0 -> to(SetPPUCTRL(b.ppu, v))
          [] reg = 1 -> to(SetPPUMASK(b.ppu, v))
          [] reg = 2 -> [ok |-> FALSE, bus |-> b]
          [] reg = 3 -> to(SetOAMADDR(b.ppu, v))
          [] reg = 4 -> to(SetOAMDATA(b.ppu, v))
          [] reg = 5 -> to(SetPPUSCROLL(b.ppu, v))
          [] reg = 6 -> to(SetPPUADDR(b.ppu, v))
          [] reg = 7 -> to(SetPPUDATA(b.ppu, v))

\* cart_.cpu_write, whatever it does, is answered with false.
WriteCart(b, a, v) ==
    [ok  |-> FALSE,
     bus |-> IF Throws(b.cart, a) THEN [b EXCEPT !.thrown = TRUE]
                                  ELSE [b EXCEPT !.cart = PrgWrite(@, a, v)]]

\* Mutant of WriteLive: RAM without its mirrors.
WriteUnmirrored(b, a, v) ==
    IF a < \h2000 THEN [ok |-> TRUE, bus |-> [b EXCEPT !.ram = Poke(@, a, v)]]
                  ELSE [ok |-> FALSE, bus |-> b]

WriteLive(b, a, v) ==
    CASE a < \h2000 -> [ok |-> TRUE, bus |-> [b EXCEPT !.ram = Poke(@, a % \h800, v)]]
      [] Between(\h2000, a, \h3FFF) /\ "ppu" \in b.attached -> WritePpu(b, a % 8, v)
      [] a = \h4016 /\ "pad" \in b.attached ->
           [ok |-> TRUE, bus |-> [b EXCEPT !.pad = WriteStrobe(@, b.keys, v)]]
      [] a = \h4017 -> [ok |-> TRUE, bus |-> b]
      [] a >= \h4020 -> WriteCart(b, a, v)
      [] OTHER -> [ok |-> FALSE, bus |-> b]

Write(b, a, v) == IF b.thrown THEN [ok |-> FALSE, bus |-> b] ELSE WriteLive(b, a, v)

\* The high byte is written only if the low one was answered with true.
WriteHighToo(lo, a, w) == IF lo.ok THEN Write(lo.bus, Word(a + 1), w \div 256) ELSE lo

Write16(b, a, w) == WriteHighToo(Write(b, a, w % 256), a, w)
=============================================================================
