---------------------------- MODULE MachineProofs ----------------------------
(***************************************************************************)
(* What holds of the machine of module Machine whatever program it runs,   *)
(* and of the debugger's prompt in front of it, whatever the user types:   *)
(* the types, that an exception leaves nothing half done, that interrupts  *)
(* and calls come back, which files the loader takes and where the program *)
(* of one is found, the controller's protocol, the numbers, the            *)
(* breakpoints and the bytes written.                                      *)
(***************************************************************************)
EXTENDS Commands, Emulator, AluProofs, SequenceTheorems

-----------------------------------------------------------------------------
(* The decoder                                                              *)
Modes == {"IMPL", "A", "IMM", "REL", "ZP", "ZPX", "ZPY", "INDX", "INDY", "ABS", "ABSX", "ABSY", "IND"}

ByteModes == {"ZP", "ZPX", "ZPY", "INDX", "INDY"}
WordModes == {"ABS", "ABSX", "ABSY", "IND"}

(* Each family of operations is decoded with modes that it can execute.     *)
LEMMA ModesOfOps ==
    ASSUME NEW o \in DOMAIN k
    PROVE  /\ DOMAIN k[o] \subseteq Modes
           /\ o \in Reads => DOMAIN k[o] \subseteq DOMAIN ReadCycles
           /\ o \in Stores => DOMAIN k[o] \subseteq DOMAIN StoreCycles
           /\ o \in Modifies => DOMAIN k[o] \subseteq DOMAIN ModifyCycles
           /\ o \in {"BCC", "BCS", "BEQ", "BMI", "BNE", "BPL", "BVC", "BVS"} => DOMAIN k[o] = {"REL"}
           /\ o = "JMP" => DOMAIN k[o] = {"ABS", "IND"}
           /\ o = "JSR" => DOMAIN k[o] = {"ABS"} /\ k[o]["ABS"] = \h20
  BY SMTT(60) DEF k, Modes, Reads, Stores, Modifies, ReadCycles, StoreCycles, ModifyCycles

LEMMA Decodes ==
    ASSUME NEW c \in Valid
    PROVE  /\ Decoded[c] \in Instructions
           /\ Decoded[c].op \in DOMAIN k
           /\ Decoded[c].mode \in DOMAIN k[Decoded[c].op]
           /\ c = k[Decoded[c].op][Decoded[c].mode]
<1>1. Decoded[c] = CHOOSE i \in Instructions : i.code = c
  BY DEF Decoded
<1>2. \E i \in Instructions : i.code = c
  BY DEF Valid
<1>3. Decoded[c] \in Instructions /\ Decoded[c].code = c
  BY <1>1, <1>2
<1>4. PICK o \in DOMAIN k : \E m \in DOMAIN k[o] : Decoded[c] = [code |-> k[o][m], op |-> o, mode |-> m]
  BY <1>3 DEF Instructions
<1> QED
  BY <1>3, <1>4

LEMMA FamilyModes ==
    ASSUME NEW i, i.op \in DOMAIN k, i.mode \in DOMAIN k[i.op]
    PROVE  /\ i.mode \in Modes
           /\ i.op \in Reads => i.mode \in {"IMM"} \union ByteModes \union (WordModes \ {"IND"})
           /\ i.op \in Stores => i.mode \in ByteModes \union (WordModes \ {"IND"})
           /\ i.op \in Modifies => i.mode \in {"A", "ZP", "ZPX", "ABS", "ABSX"}
           /\ i.op \in {"BCC", "BCS", "BEQ", "BMI", "BNE", "BPL", "BVC", "BVS"} => i.mode = "REL"
           /\ i.op = "JMP" => i.mode \in {"ABS", "IND"}
           /\ i.op = "JSR" => i.mode = "ABS" /\ k[i.op][i.mode] = \h20
<1>1. /\ DOMAIN ReadCycles = {"IMM"} \union ByteModes \union (WordModes \ {"IND"})
      /\ DOMAIN StoreCycles = ByteModes \union (WordModes \ {"IND"})
      /\ DOMAIN ModifyCycles = {"A", "ZP", "ZPX", "ABS", "ABSX"}
  BY DEF ReadCycles, StoreCycles, ModifyCycles, ByteModes, WordModes
<1> QED
  BY <1>1, ModesOfOps

LEMMA BaseCyclesTyped ==
    ASSUME NEW i, i.op \in DOMAIN k, i.mode \in DOMAIN k[i.op]
    PROVE  BaseCycles(i) \in 2 .. 7
<1>1. /\ i.op \in Reads => i.mode \in DOMAIN ReadCycles
      /\ i.op \in Stores => i.mode \in DOMAIN StoreCycles
      /\ i.op \in Modifies => i.mode \in DOMAIN ModifyCycles
  BY ModesOfOps
<1>2. /\ \A m \in DOMAIN ReadCycles : ReadCycles[m] \in 2 .. 6
      /\ \A m \in DOMAIN StoreCycles : StoreCycles[m] \in 2 .. 6
      /\ \A m \in DOMAIN ModifyCycles : ModifyCycles[m] \in 2 .. 7
  BY DEF ReadCycles, StoreCycles, ModifyCycles
<1>3. CASE i.op \in Reads
  BY <1>1, <1>2, <1>3 DEF BaseCycles, Reads, Stores, Modifies
<1>4. CASE i.op \in Stores \ Reads
  BY <1>1, <1>2, <1>4 DEF BaseCycles, Reads, Stores, Modifies
<1>5. CASE i.op \in Modifies \ (Reads \union Stores)
  BY <1>1, <1>2, <1>5 DEF BaseCycles, Reads, Stores, Modifies
<1>6. CASE i.op \notin Reads \union Stores \union Modifies
  BY <1>6 DEF BaseCycles, JumpCycles, StackCycles
<1> QED
  BY <1>3, <1>4, <1>5, <1>6

LEMMA SizeTyped == \A m \in Modes : Size[m] \in 1 .. 3
  BY DEF Modes, Size

(* Bytes and words are numbers of so many bits.                             *)
LEMMA ByteIs == ASSUME NEW v PROVE v \in Byte <=> (v \in Int /\ 0 <= v /\ v < 256)
  BY DEF Byte

LEMMA WordIs == ASSUME NEW w PROVE w \in Words <=> (w \in Int /\ 0 <= w /\ w < 65536)
<1>1. MaxWord = 65535 /\ MaxWord \in Int
  BY DEF MaxWord
<1>2. MaxWord \in Int
  BY <1>1
<1>3. w \in Words <=> (w \in Int /\ 0 <= w /\ w <= MaxWord)
  BY <1>2 DEF Words
<1> QED BY <1>1, <1>3

LEMMA Remainders ==
    ASSUME NEW n \in Int
    PROVE  Word(n) \in Words /\ n % 65536 \in Words /\ n % 256 \in Byte
<1>1. Word(n) = n % 65536 /\ n % 65536 \in Int /\ 0 <= n % 65536 /\ n % 65536 < 65536
  BY DEF Word
<1>2. n % 256 \in Int /\ 0 <= n % 256 /\ n % 256 < 256
  OBVIOUS
<1> QED
  BY <1>1, <1>2, WordIs, ByteIs

LEMMA ByteInWord == ASSUME NEW v \in Byte PROVE v \in Words /\ v \in Int
  BY ByteIs, WordIs

(* The memories                                                             *)
LEMMA PeekTyped ==
    ASSUME NEW mem, NEW size, SparseTypeOK(mem, size), NEW c
    PROVE  Peek(mem, c) \in Byte
<1>1. 0 \in Byte
  BY ByteIs
<1> QED BY <1>1 DEF Peek, SparseTypeOK

LEMMA PokeTyped ==
    ASSUME NEW mem, NEW size, SparseTypeOK(mem, size), NEW c \in Nat, c < size, NEW v \in Byte
    PROVE  /\ SparseTypeOK(Poke(mem, c, v), size)
           /\ Peek(Poke(mem, c, v), c) = v
           /\ \A d : d # c => Peek(Poke(mem, c, v), d) = Peek(mem, d)
<1> DEFINE D == (DOMAIN mem \ {c}) \union (IF v = 0 THEN {} ELSE {c})
           new == Poke(mem, c, v)
<1>1. DOMAIN new = D /\ \A d \in D : new[d] = IF d = c THEN v ELSE mem[d]
  BY DEF Poke
<1> HIDE DEF new
<1> QED
  BY <1>1 DEF SparseTypeOK, Peek, new

(* What a bus comes to after accesses, and after reads only; nothing at all *)
(* happens once one has thrown.                                             *)
Follows(b, c) ==
    /\ BusTypeOK(c)
    /\ c.attached = b.attached /\ c.cart.kind = b.cart.kind
    /\ b.thrown => c = b

OnlyRead(b, c) == Follows(b, c) /\ c.ram = b.ram /\ c.cart = b.cart

LEMMA FollowsTransitively ==
    ASSUME NEW b, NEW c, NEW d
    PROVE  /\ Follows(b, c) /\ Follows(c, d) => Follows(b, d)
           /\ OnlyRead(b, c) /\ OnlyRead(c, d) => OnlyRead(b, d)
           /\ BusTypeOK(b) => OnlyRead(b, b)
           /\ OnlyRead(b, c) => Follows(b, c)
  BY DEF Follows, OnlyRead

\* Where the cartridge throws.
Faults(b, a) == b.cart.kind = "Mapper0" /\ \h4020 <= a /\ a < \h6000

(* One part of a bus replaced.                                              *)
LEMMA BusWithPpu ==
    ASSUME NEW b, BusTypeOK(b), NEW u, PpuTypeOK(u)
    PROVE  LET c == [b EXCEPT !.ppu = u]
           IN  BusTypeOK(c) /\ c.attached = b.attached /\ c.ram = b.ram /\ c.cart = b.cart
               /\ c.thrown = b.thrown
  BY DEF BusTypeOK

LEMMA BusWithPad ==
    ASSUME NEW b, BusTypeOK(b), NEW u, PadTypeOK(u)
    PROVE  LET c == [b EXCEPT !.pad = u]
           IN  BusTypeOK(c) /\ c.attached = b.attached /\ c.ram = b.ram /\ c.cart = b.cart
               /\ c.thrown = b.thrown
  BY DEF BusTypeOK

LEMMA BusWithRam ==
    ASSUME NEW b, BusTypeOK(b), NEW m, SparseTypeOK(m, \h800)
    PROVE  LET c == [b EXCEPT !.ram = m]
           IN  BusTypeOK(c) /\ c.attached = b.attached /\ c.ram = m /\ c.cart = b.cart
               /\ c.thrown = b.thrown
  BY DEF BusTypeOK

LEMMA BusWithCart ==
    ASSUME NEW b, BusTypeOK(b), NEW m, CartTypeOK(m)
    PROVE  LET c == [b EXCEPT !.cart = m]
           IN  BusTypeOK(c) /\ c.attached = b.attached /\ c.ram = b.ram /\ c.cart = m
               /\ c.thrown = b.thrown
  BY DEF BusTypeOK

LEMMA BusWithThrown ==
    ASSUME NEW b, BusTypeOK(b), NEW t \in BOOLEAN
    PROVE  LET c == [b EXCEPT !.thrown = t]
           IN  BusTypeOK(c) /\ c.attached = b.attached /\ c.ram = b.ram /\ c.cart = b.cart
               /\ c.thrown = t
  BY DEF BusTypeOK

(* The PPU                                                                  *)
LEMMA PpuReadTyped ==
    ASSUME NEW u, PpuTypeOK(u), NEW a
    PROVE  PpuRead(u, a) \in Byte
<1>1. \A c : Peek(u.names, c) \in Byte /\ Peek(u.palette, c) \in Byte
  BY PeekTyped DEF PpuTypeOK
<1>2. \A v \in Byte : 16 * ((v \div 16) % 4) \in Byte
  BY ByteIs
<1>3. OpenBus \in Byte
  BY ByteIs DEF OpenBus
<1> QED
  BY <1>1, <1>2, <1>3 DEF PpuRead

LEMMA PpuRegistersTyped ==
    ASSUME NEW u, PpuTypeOK(u), NEW v \in Byte
    PROVE  /\ PpuTypeOK(SetPPUCTRL(u, v)) /\ PpuTypeOK(SetPPUMASK(u, v))
           /\ PpuTypeOK(SetOAMADDR(u, v)) /\ PpuTypeOK(SetOAMDATA(u, v))
           /\ PpuTypeOK(SetPPUSCROLL(u, v)) /\ PpuTypeOK(SetPPUADDR(u, v))
           /\ PpuTypeOK(AfterPPUSTATUS(u)) /\ PpuTypeOK(Increment(u))
<1>1. /\ PpuTypeOK(SetPPUCTRL(u, v)) /\ PpuTypeOK(SetPPUMASK(u, v))
      /\ PpuTypeOK(SetOAMADDR(u, v)) /\ PpuTypeOK(SetOAMDATA(u, v))
      /\ PpuTypeOK(SetPPUSCROLL(u, v))
  BY DEF PpuTypeOK, SetPPUCTRL, SetPPUMASK, SetOAMADDR, SetOAMDATA, SetPPUSCROLL
<1>2. u.addr \in Words /\ u.status \in Byte
  BY DEF PpuTypeOK
<1>3. /\ \A w \in Words : PpuTypeOK([u EXCEPT !.addr = w])
      /\ \A w \in Byte : PpuTypeOK([u EXCEPT !.status = w])
  BY DEF PpuTypeOK
<1>4. u.status % 128 \in Byte
  BY <1>2, ByteIs
<1>5. /\ (256 * u.addr + v) % 65536 \in Words
      /\ (u.addr + (IF Bit(u.ctrl, 2) THEN 32 ELSE 1)) % 65536 \in Words
  <2>1. 256 * u.addr + v \in Int /\ u.addr + (IF Bit(u.ctrl, 2) THEN 32 ELSE 1) \in Int
    BY <1>2, WordIs, ByteIs
  <2> QED
    BY <2>1, Remainders
<1> QED
  BY <1>1, <1>3, <1>4, <1>5 DEF SetPPUADDR, AfterPPUSTATUS, Increment

LEMMA PpuWriteTyped ==
    ASSUME NEW u, PpuTypeOK(u), NEW a \in Words, NEW v \in Byte
    PROVE  PpuTypeOK(PpuWrite(u, a, v))
<1>1. SparseTypeOK(u.names, \h1000) /\ SparseTypeOK(u.palette, 32)
  BY DEF PpuTypeOK
<1>2. Nametables(a) \/ NameMirror(a) => NameCell(a) \in Nat /\ NameCell(a) < \h1000
  BY WordIs DEF Nametables, NameMirror, NameCell, Between
<1>3. a % 32 \in Nat /\ a % 32 < 32
  BY WordIs
<1>4. Nametables(a) \/ NameMirror(a) => SparseTypeOK(Poke(u.names, NameCell(a), v), \h1000)
  BY <1>1, <1>2, PokeTyped
<1>5. SparseTypeOK(Poke(u.palette, a % 32, v), 32)
  BY <1>1, <1>3, PokeTyped
<1>6. /\ \A m : SparseTypeOK(m, \h1000) => PpuTypeOK([u EXCEPT !.names = m])
      /\ \A m : SparseTypeOK(m, 32) => PpuTypeOK([u EXCEPT !.palette = m])
  BY DEF PpuTypeOK
<1> QED
  BY <1>4, <1>5, <1>6 DEF PpuWrite

(* The cartridge                                                            *)
LEMMA PrgReadTyped ==
    ASSUME NEW m, CartTypeOK(m), NEW a \in Words
    PROVE  PrgRead(m, a) \in Byte
<1>1. \A i : ByteAt(m.prg, i) \in Byte
  BY ByteIs DEF ByteAt, OpenBus, CartTypeOK, PrgTypeOK
<1>2. \A w \in Words : w % 256 \in Byte /\ w \div 256 \in Byte
  BY WordIs, ByteIs
<1>3. OpenBus \in Byte
  BY ByteIs DEF OpenBus
<1>4. m.kind = "Vector" => m.isr \in Words /\ m.entry \in Words
  BY DEF CartTypeOK
<1>5. a \in Int /\ 0 <= a /\ a < 65536
  BY WordIs
<1>6. m.kind = "Vector" => VectorRead(m, a) \in Byte
  BY <1>1, <1>2, <1>3, <1>4, <1>5 DEF VectorRead, Between
<1>7. Mapper0Read(m, a) \in Byte
  BY <1>1, <1>3 DEF Mapper0Read
<1> QED
  BY <1>6, <1>7 DEF PrgRead

LEMMA PrgWriteTyped ==
    ASSUME NEW m, CartTypeOK(m), NEW a \in Words, NEW v \in Byte
    PROVE  CartTypeOK(PrgWrite(m, a, v)) /\ PrgWrite(m, a, v).kind = m.kind
<1> DEFINE i   == PrgIndex(m, a)
           new == [j \in DOMAIN m.prg \union {i} |-> IF j = i THEN v ELSE m.prg[j]]
<1>1. PrgTypeOK(new)
  BY DEF CartTypeOK, PrgTypeOK
<1>2. PrgWrite(m, a, v) = m \/ PrgWrite(m, a, v) = [m EXCEPT !.prg = new]
  BY DEF PrgWrite
<1> HIDE DEF new
<1>3. CartTypeOK([m EXCEPT !.prg = new]) /\ [m EXCEPT !.prg = new].kind = m.kind
  BY <1>1 DEF CartTypeOK
<1> QED
  BY <1>2, <1>3, Zenon

(* The controller                                                           *)
LEMMA PadTyped ==
    ASSUME NEW pad, PadTypeOK(pad)
    PROVE  /\ ReadJoy1(pad) \in Byte
           /\ PadTypeOK(AfterReadJoy1(pad))
           /\ \A keys : \A v \in Byte : PadTypeOK(WriteStrobe(pad, keys, v))
<1>1. \A keys, n : Pressed(keys, n) \in {0, 1}
  BY DEF Pressed
<1>2. \A keys : RegisterOf(keys) \in Byte
  BY <1>1, ByteIs DEF RegisterOf
<1>3. pad.reg \in Byte /\ pad.strobe \in BOOLEAN
  BY DEF PadTypeOK
<1>4. pad.reg % 2 \in Byte /\ pad.reg \div 2 \in Byte
  BY <1>3, ByteIs
<1> QED
  BY <1>2, <1>3, <1>4 DEF PadTypeOK, ReadJoy1, AfterReadJoy1, WriteStrobe

-----------------------------------------------------------------------------
(* A read yields a byte; it throws where Mapper0 does.                      *)
LEMMA ReadTyped ==
    ASSUME NEW b, BusTypeOK(b), NEW a \in Words
    PROVE  /\ Read(b, a).v \in Byte
           /\ OnlyRead(b, Read(b, a).bus)
           /\ Read(b, a).bus.thrown <=> b.thrown \/ Faults(b, a)
<1>1. a \in Int /\ 0 <= a /\ a < 65536 /\ OpenBus \in Byte /\ 0 \in Byte
  BY WordIs, ByteIs DEF OpenBus
<1>2. b.thrown \in BOOLEAN /\ CartTypeOK(b.cart) /\ SparseTypeOK(b.ram, \h800)
  BY DEF BusTypeOK
<1>3. CASE b.thrown
  BY <1>1, <1>3, FollowsTransitively DEF Read
<1> SUFFICES ASSUME ~b.thrown
             PROVE  /\ ReadLive(b, a).v \in Byte
                    /\ OnlyRead(b, ReadLive(b, a).bus)
                    /\ ReadLive(b, a).bus.thrown <=> Faults(b, a)
  BY <1>2, <1>3 DEF Read
<1> DEFINE Good(r) == r.v \in Byte /\ OnlyRead(b, r.bus) /\ (r.bus.thrown <=> Faults(b, a))
<1>4. \A v \in Byte : ~Faults(b, a) => Good([v |-> v, bus |-> b])
  BY FollowsTransitively
<1>5. a < \h2000 => Good([v |-> Peek(b.ram, a % \h800), bus |-> b])
  BY <1>1, <1>2, <1>4, PeekTyped DEF Faults
<1>6. a < \h4020 /\ "ppu" \in b.attached => Good(ReadPpu(b, a % 8))
  <2> SUFFICES ASSUME a < \h4020, "ppu" \in b.attached PROVE Good(ReadPpu(b, a % 8))
    OBVIOUS
  <2>1. PpuTypeOK(b.ppu) /\ ~Faults(b, a)
    BY <1>1 DEF BusTypeOK, Faults
  <2>2. \A u : PpuTypeOK(u) => OnlyRead(b, [b EXCEPT !.ppu = u]) /\ ~[b EXCEPT !.ppu = u].thrown
    BY BusWithPpu DEF OnlyRead, Follows
  <2>3. b.ppu.status \in Byte /\ b.ppu.oamdata \in Byte
    BY <2>1 DEF PpuTypeOK
  <2>4. /\ PpuTypeOK(AfterPPUSTATUS(b.ppu)) /\ PpuTypeOK(AfterPPUDATA(b.ppu))
        /\ GetPPUDATA(b.ppu) \in Byte
    BY <1>1, <2>1, PpuRegistersTyped, PpuReadTyped DEF AfterPPUDATA, GetPPUDATA
  <2> QED
    BY <1>1, <1>4, <2>1, <2>2, <2>3, <2>4 DEF ReadPpu
<1>7. a < \h4020 /\ "pad" \in b.attached => Good(ReadPad(b))
  <2>1. "pad" \in b.attached => PadTypeOK(b.pad)
    BY DEF BusTypeOK
  <2>2. \A u : PadTypeOK(u) => OnlyRead(b, [b EXCEPT !.pad = u]) /\ ~[b EXCEPT !.pad = u].thrown
    BY BusWithPad DEF OnlyRead, Follows
  <2>3. "pad" \in b.attached => ReadJoy1(b.pad) \in Byte /\ PadTypeOK(AfterReadJoy1(b.pad))
    BY <2>1, PadTyped
  <2>4. /\ ReadPad(b).v = ReadJoy1(b.pad)
        /\ ReadPad(b).bus = [b EXCEPT !.pad = AfterReadJoy1(b.pad)]
    BY DEF ReadPad
  <2>5. a < \h4020 => ~Faults(b, a)
    BY <1>1 DEF Faults
  <2> QED
    BY <2>2, <2>3, <2>4, <2>5
<1>8. a >= \h4020 => Good(ReadCart(b, a))
  <2>1. OnlyRead(b, [b EXCEPT !.thrown = TRUE]) /\ [b EXCEPT !.thrown = TRUE].thrown
    BY BusWithThrown DEF OnlyRead, Follows
  <2>2. a >= \h4020 => (Throws(b.cart, a) <=> Faults(b, a))
    BY <1>1 DEF Throws, Faults
  <2> QED
    BY <1>1, <1>2, <1>4, <2>1, <2>2, PrgReadTyped DEF ReadCart
<1>9. a < \h4020 => Good([v |-> 0, bus |-> b]) /\ Good([v |-> OpenBus, bus |-> b])
  BY <1>1, <1>4 DEF Faults
<1> HIDE DEF Good
<1>10. Good(ReadLive(b, a))
  BY <1>1, <1>5, <1>6, <1>7, <1>8, <1>9 DEF ReadLive, Between
<1> QED
  BY <1>10 DEF Good

LEMMA Read16Typed ==
    ASSUME NEW b, BusTypeOK(b), NEW a \in Words
    PROVE  /\ Read16(b, a).v \in Words
           /\ OnlyRead(b, Read16(b, a).bus)
           /\ Read16(b, a).bus.thrown <=> b.thrown \/ Faults(b, a) \/ Faults(b, Word(a + 1))
<1> DEFINE lo == Read(b, a)
           hi == Read(lo.bus, Word(a + 1))
<1>1. lo.v \in Byte /\ OnlyRead(b, lo.bus) /\ (lo.bus.thrown <=> b.thrown \/ Faults(b, a))
  BY ReadTyped
<1>2. BusTypeOK(lo.bus) /\ lo.bus.cart = b.cart
  BY <1>1 DEF OnlyRead, Follows
<1>3. Word(a + 1) \in Words
  BY Remainders, WordIs
<1>4. /\ hi.v \in Byte /\ OnlyRead(lo.bus, hi.bus)
      /\ hi.bus.thrown <=> lo.bus.thrown \/ Faults(lo.bus, Word(a + 1))
  BY <1>2, <1>3, ReadTyped
<1>5. Read16(b, a).v = lo.v + 256 * hi.v /\ Read16(b, a).bus = hi.bus
  BY DEF Read16, ReadHighToo, HighByteToo
<1> HIDE DEF lo, hi
<1>6. lo.v + 256 * hi.v \in Words
  BY <1>1, <1>4, ByteIs, WordIs
<1> QED
  BY <1>1, <1>2, <1>4, <1>5, <1>6, FollowsTransitively DEF Faults

(* A write: RAM changes below 0x2000 only, one cell of it, and never in a   *)
(* write that throws; what is answered with true does not come from the     *)
(* cartridge.                                                               *)
LEMMA WriteTyped ==
    ASSUME NEW b, BusTypeOK(b), NEW a \in Words, NEW v \in Byte
    PROVE  /\ Follows(b, Write(b, a, v).bus)
           /\ Write(b, a, v).ok => a < \h4018 /\ ~b.thrown
           /\ Write(b, a, v).bus.thrown <=> b.thrown \/ Faults(b, a)
           /\ ~b.thrown /\ a < \h2000 => Write(b, a, v).bus.ram = Poke(b.ram, a % \h800, v)
           /\ b.thrown \/ a >= \h2000 => Write(b, a, v).bus.ram = b.ram
<1>0. LET c == [b EXCEPT !.thrown = TRUE]
      IN  BusTypeOK(c) /\ c.ram = b.ram /\ c.cart = b.cart /\ c.attached = b.attached /\ c.thrown
  BY BusWithThrown, Zenon
<1>1. a \in Int /\ 0 <= a /\ a < 65536
  BY WordIs
<1>2. b.thrown \in BOOLEAN /\ CartTypeOK(b.cart) /\ SparseTypeOK(b.ram, \h800)
  BY DEF BusTypeOK
<1>3. CASE b.thrown
  BY <1>3, FollowsTransitively DEF Write
<1> DEFINE Good(r) == /\ Follows(b, r.bus)
                      /\ r.ok => a < \h4018
                      /\ r.bus.thrown <=> Faults(b, a)
                      /\ a < \h2000 => r.bus.ram = Poke(b.ram, a % \h800, v)
                      /\ a >= \h2000 => r.bus.ram = b.ram
<1> SUFFICES ASSUME ~b.thrown PROVE Good(WriteLive(b, a, v))
  BY <1>2, <1>3 DEF Write
<1>4. /\ \h2000 <= a /\ a < \h4020 => Good([ok |-> FALSE, bus |-> b])
      /\ a = \h4017 => Good([ok |-> TRUE, bus |-> b])
  BY <1>1, FollowsTransitively DEF Faults
<1>5. a < \h2000 => Good([ok |-> TRUE, bus |-> [b EXCEPT !.ram = Poke(b.ram, a % \h800, v)]])
  <2>1. a % \h800 \in Nat /\ a % \h800 < \h800
    BY <1>1
  <2>2. SparseTypeOK(Poke(b.ram, a % \h800, v), \h800)
    BY <1>2, <2>1, PokeTyped
  <2> DEFINE c == [b EXCEPT !.ram = Poke(b.ram, a % \h800, v)]
  <2>3. BusTypeOK(c) /\ c.ram = Poke(b.ram, a % \h800, v) /\ c.cart = b.cart
        /\ c.attached = b.attached /\ ~c.thrown
    BY <2>2, BusWithRam
  <2> HIDE DEF c
  <2>4. a < \h2000 => Good([ok |-> TRUE, bus |-> c])
    BY <1>1, <2>3 DEF Follows, Faults
  <2> QED BY <2>4 DEF c
<1>6. Between(\h2000, a, \h3FFF) /\ "ppu" \in b.attached => Good(WritePpu(b, a % 8, v))
  <2> SUFFICES ASSUME Between(\h2000, a, \h3FFF), "ppu" \in b.attached
               PROVE  Good(WritePpu(b, a % 8, v))
    OBVIOUS
  <2>1. PpuTypeOK(b.ppu) /\ \h2000 <= a /\ a < \h4000 /\ ~Faults(b, a)
    BY <1>1 DEF BusTypeOK, Between, Faults
  <2>2. ASSUME NEW u, PpuTypeOK(u)
        PROVE  Good([ok |-> TRUE, bus |-> [b EXCEPT !.ppu = u]])
    <3> DEFINE c == [b EXCEPT !.ppu = u]
    <3>1. BusTypeOK(c) /\ c.ram = b.ram /\ c.cart = b.cart /\ c.attached = b.attached /\ ~c.thrown
      BY <2>2, BusWithPpu
    <3> HIDE DEF c
    <3>2. Good([ok |-> TRUE, bus |-> c])
      BY <1>1, <2>1, <3>1 DEF Follows
    <3> QED BY <3>2 DEF c
  <2>3. /\ PpuTypeOK(SetPPUCTRL(b.ppu, v)) /\ PpuTypeOK(SetPPUMASK(b.ppu, v))
        /\ PpuTypeOK(SetOAMADDR(b.ppu, v)) /\ PpuTypeOK(SetOAMDATA(b.ppu, v))
        /\ PpuTypeOK(SetPPUSCROLL(b.ppu, v)) /\ PpuTypeOK(SetPPUADDR(b.ppu, v))
    BY <2>1, PpuRegistersTyped
  <2>4. PpuTypeOK(SetPPUDATA(b.ppu, v))
    <3>1. b.ppu.addr \in Words
      BY <2>1 DEF PpuTypeOK
    <3>2. PpuTypeOK(PpuWrite(b.ppu, b.ppu.addr, v))
      BY <2>1, <3>1, PpuWriteTyped
    <3> QED
      BY <3>2, PpuRegistersTyped DEF SetPPUDATA
  <2>5. Good([ok |-> FALSE, bus |-> b])
    BY <1>1, <1>4, <2>1
  <2>6. a % 8 \in 0 .. 7
    BY <1>1
  <2> HIDE DEF Good
  <2> QED
    BY <2>2, <2>3, <2>4, <2>5, <2>6 DEF WritePpu
<1>7. a = \h4016 /\ "pad" \in b.attached =>
          Good([ok |-> TRUE, bus |-> [b EXCEPT !.pad = WriteStrobe(b.pad, b.keys, v)]])
  <2> DEFINE u == WriteStrobe(b.pad, b.keys, v)
             c == [b EXCEPT !.pad = u]
  <2> SUFFICES ASSUME a = \h4016, "pad" \in b.attached PROVE Good([ok |-> TRUE, bus |-> c])
    OBVIOUS
  <2>1. PadTypeOK(u)
    BY PadTyped DEF BusTypeOK
  <2> HIDE DEF u
  <2>2. BusTypeOK(c) /\ c.ram = b.ram /\ c.cart = b.cart /\ c.attached = b.attached /\ ~c.thrown
    BY <2>1, BusWithPad
  <2> HIDE DEF c
  <2> QED
    BY <2>2 DEF Follows, Faults
<1>8. a >= \h4020 => Good(WriteCart(b, a, v))
  <2> SUFFICES ASSUME a >= \h4020 PROVE Good(WriteCart(b, a, v))
    OBVIOUS
  <2>1. Throws(b.cart, a) <=> Faults(b, a)
    BY <1>1 DEF Throws, Faults
  <2>2. CASE Faults(b, a)
    <3> DEFINE c == [b EXCEPT !.thrown = TRUE]
    <3>1. BusTypeOK(c) /\ c.ram = b.ram /\ c.cart = b.cart /\ c.attached = b.attached /\ c.thrown
      BY <1>0
    <3>2. WriteCart(b, a, v) = [ok |-> FALSE, bus |-> c]
      BY <2>1, <2>2 DEF WriteCart
    <3> HIDE DEF c
    <3> QED
      BY <1>1, <2>2, <3>1, <3>2 DEF Follows
  <2>3. CASE ~Faults(b, a)
    <3> DEFINE m == PrgWrite(b.cart, a, v)
               c == [b EXCEPT !.cart = m]
    <3>1. CartTypeOK(m) /\ m.kind = b.cart.kind
      BY <1>2, PrgWriteTyped
    <3>2. WriteCart(b, a, v).bus = c /\ ~WriteCart(b, a, v).ok
      BY <2>1, <2>3 DEF WriteCart
    <3> HIDE DEF m
    <3>3. BusTypeOK(c) /\ c.ram = b.ram /\ c.cart = m /\ c.attached = b.attached /\ ~c.thrown
      BY <3>1, BusWithCart
    <3> HIDE DEF c
    <3> QED
      BY <1>1, <2>3, <3>1, <3>2, <3>3 DEF Follows
  <2> QED
    BY <2>2, <2>3
<1> HIDE DEF Good
<1> QED
  BY <1>1, <1>4, <1>5, <1>6, <1>7, <1>8 DEF WriteLive, Between

LEMMA Write16Typed ==
    ASSUME NEW b, BusTypeOK(b), NEW a \in Words, NEW w \in Words
    PROVE  /\ Follows(b, Write16(b, a, w).bus)
           /\ Write16(b, a, w).bus.thrown <=> b.thrown \/ Faults(b, a)
<1> DEFINE lo == Write(b, a, w % 256)
           up == Word(a + 1)
           top == w \div 256
           hi == Write(lo.bus, up, top)
<1>1. /\ w % 256 \in Byte /\ top \in Byte /\ up \in Words
      /\ a \in Int /\ 0 <= a
      /\ a < \h4018 => up < \h4019
  BY WordIs, ByteIs, Remainders DEF Word
<1>2. Follows(b, lo.bus) /\ (lo.ok => a < \h4018) /\ (lo.bus.thrown <=> b.thrown \/ Faults(b, a))
  BY <1>1, WriteTyped
<1>3. Follows(lo.bus, hi.bus) /\ (hi.bus.thrown <=> lo.bus.thrown \/ Faults(lo.bus, up))
  <2> HIDE DEF lo, up, top
  <2>1. BusTypeOK(lo.bus)
    BY <1>2 DEF Follows
  <2> QED
    BY <1>1, <2>1, WriteTyped
<1>4. Write16(b, a, w) = IF lo.ok THEN hi ELSE lo
  BY DEF Write16, WriteHighToo
<1> HIDE DEF lo, hi, up, top
<1>5. lo.ok => ~Faults(lo.bus, up)
  BY <1>1, <1>2, WordIs DEF Faults
<1> QED
  BY <1>2, <1>3, <1>4, <1>5, FollowsTransitively

LEMMA StateParts ==
    ASSUME NEW s, StateTypeOK(s)
    PROVE  /\ s.pc \in Words /\ s.sp \in Byte /\ s.a \in Byte /\ s.x \in Byte /\ s.y \in Byte
           /\ s.p \in SUBSET Flag /\ BusTypeOK(s.bus)
  BY DEF StateTypeOK

(* One part of the CPU replaced.                                            *)
LEMMA StateWith ==
    ASSUME NEW s, StateTypeOK(s)
    PROVE  /\ \A v \in Words : StateTypeOK([s EXCEPT !.pc = v]) /\ [s EXCEPT !.pc = v].bus = s.bus
           /\ \A v \in Byte : StateTypeOK([s EXCEPT !.sp = v]) /\ [s EXCEPT !.sp = v].bus = s.bus
           /\ \A v \in Byte : StateTypeOK([s EXCEPT !.a = v]) /\ [s EXCEPT !.a = v].bus = s.bus
           /\ \A v \in Byte : StateTypeOK([s EXCEPT !.x = v]) /\ [s EXCEPT !.x = v].bus = s.bus
           /\ \A v \in Byte : StateTypeOK([s EXCEPT !.y = v]) /\ [s EXCEPT !.y = v].bus = s.bus
           /\ \A v \in SUBSET Flag : StateTypeOK([s EXCEPT !.p = v]) /\ [s EXCEPT !.p = v].bus = s.bus
           /\ \A c : BusTypeOK(c) => StateTypeOK([s EXCEPT !.bus = c]) /\ [s EXCEPT !.bus = c].bus = c
<1>1. \A v \in Words : StateTypeOK([s EXCEPT !.pc = v]) /\ [s EXCEPT !.pc = v].bus = s.bus
  BY DEF StateTypeOK
<1>2. \A v \in Byte : StateTypeOK([s EXCEPT !.sp = v]) /\ [s EXCEPT !.sp = v].bus = s.bus
  BY DEF StateTypeOK
<1>3. \A v \in Byte : StateTypeOK([s EXCEPT !.a = v]) /\ [s EXCEPT !.a = v].bus = s.bus
  BY DEF StateTypeOK
<1>4. \A v \in Byte : StateTypeOK([s EXCEPT !.x = v]) /\ [s EXCEPT !.x = v].bus = s.bus
  BY DEF StateTypeOK
<1>5. \A v \in Byte : StateTypeOK([s EXCEPT !.y = v]) /\ [s EXCEPT !.y = v].bus = s.bus
  BY DEF StateTypeOK
<1>6. \A v \in SUBSET Flag : StateTypeOK([s EXCEPT !.p = v]) /\ [s EXCEPT !.p = v].bus = s.bus
  BY DEF StateTypeOK
<1>7. \A c : BusTypeOK(c) => StateTypeOK([s EXCEPT !.bus = c]) /\ [s EXCEPT !.bus = c].bus = c
  BY DEF StateTypeOK
<1> QED
  BY <1>1, <1>2, <1>3, <1>4, <1>5, <1>6, <1>7, Zenon

LEMMA WithBusTyped ==
    ASSUME NEW s, StateTypeOK(s), NEW b, BusTypeOK(b)
    PROVE  /\ StateTypeOK(WithBus(s, b)) /\ WithBus(s, b).bus = b
           /\ WithBus(s, b).pc = s.pc /\ WithBus(s, b).p = s.p /\ WithBus(s, b).sp = s.sp
<1>1. StateTypeOK(WithBus(s, b)) /\ WithBus(s, b).bus = b
  BY StateWith DEF WithBus
<1>2. WithBus(s, b).pc = s.pc /\ WithBus(s, b).p = s.p /\ WithBus(s, b).sp = s.sp
  BY DEF StateTypeOK, WithBus
<1> QED
  BY <1>1, <1>2

LEMMA WithBusAgain ==
    ASSUME NEW s, StateTypeOK(s)
    PROVE  /\ WithBus(s, s.bus) = s
           /\ \A b, c : WithBus(WithBus(s, b), c) = WithBus(s, c)
<1>1. WithBus(s, s.bus) = s
  BY DEF StateTypeOK, WithBus
<1>2. ASSUME NEW b, NEW c
      PROVE  WithBus(WithBus(s, b), c) = WithBus(s, c)
  BY DEF WithBus
<1> QED
  BY <1>1, <1>2

LEMMA GoesOn ==
    ASSUME NEW s, NEW t
    PROVE  /\ s.bus.thrown => GoingOn(s, t) = s
           /\ ~s.bus.thrown => GoingOn(s, t) = t
  BY DEF GoingOn

(* What reads alone make of the CPU s: no register has changed and no byte  *)
(* of RAM.                                                                  *)
Untouched(s, t) == t = WithBus(s, t.bus) /\ t.bus.ram = s.bus.ram

LEMMA UntouchedTransitively ==
    ASSUME NEW r, StateTypeOK(r), NEW s, NEW t, Untouched(r, s), Untouched(s, t)
    PROVE  Untouched(r, t)
<1> DEFINE b == s.bus
           c == t.bus
<1>1. s = WithBus(r, b) /\ t = WithBus(s, c) /\ c.ram = r.bus.ram
  BY DEF Untouched
<1> HIDE DEF b, c
<1>2. t = WithBus(r, c)
  BY <1>1, WithBusAgain
<1> QED
  BY <1>1, <1>2 DEF Untouched, c

LEMMA BusUntouched ==
    ASSUME NEW s, StateTypeOK(s), NEW b, BusTypeOK(b), b.ram = s.bus.ram
    PROVE  Untouched(s, WithBus(s, b))
<1> DEFINE t == WithBus(s, b)
<1>1. t.bus = b /\ t = WithBus(s, b)
  BY WithBusTyped
<1> HIDE DEF t
<1> QED
  BY <1>1 DEF Untouched, t

-----------------------------------------------------------------------------
(* Operands                                                                 *)

\* What a fetch from the bus b may yield.
FetchOK(b, f, values) == f.v \in values /\ OnlyRead(b, f.bus)

LEMMA ThroughTyped ==
    ASSUME NEW b, NEW f, FetchOK(b, f, Words), NEW n \in Byte
    PROVE  /\ FetchOK(b, Through(f), Words)
           /\ FetchOK(b, Indexed(f, n), Words)
           /\ FetchOK(b, ReadAt(f), Byte)
<1>1. BusTypeOK(f.bus) /\ f.v \in Words /\ OnlyRead(b, f.bus)
  BY DEF FetchOK, OnlyRead, Follows
<1>2. FetchOK(b, Through(f), Words)
  BY <1>1, Read16Typed, FollowsTransitively DEF Through, FetchOK
<1>3. FetchOK(b, ReadAt(f), Byte)
  BY <1>1, ReadTyped, FollowsTransitively DEF ReadAt, FetchOK
<1>4. Word(f.v + n) \in Words
  BY <1>1, WordIs, ByteIs, Remainders
<1> QED
  BY <1>1, <1>2, <1>3, <1>4 DEF FetchOK, Indexed

LEMMA ZeroPageTyped ==
    ASSUME NEW b, NEW f, FetchOK(b, f, Byte), NEW n \in Byte
    PROVE  /\ FetchOK(b, InZeroPage(f, n), Byte)
           /\ FetchOK(b, f, Words)
<1>1. (f.v + n) % 256 \in Byte /\ f.v \in Words
  BY ByteIs, ByteInWord, Remainders DEF FetchOK
<1> QED
  BY <1>1 DEF FetchOK, InZeroPage

LEMMA AddrFetchTyped ==
    ASSUME NEW s, StateTypeOK(s), NEW mode \in ByteModes \union WordModes
    PROVE  FetchOK(s.bus, AddrFetch(s, mode), Words)
<1>1. s.x \in Byte /\ s.y \in Byte /\ BusTypeOK(s.bus) /\ Word(s.pc + 1) \in Words
  BY StateParts, WordIs, Remainders
<1>2. CASE mode \in WordModes
  <2> DEFINE word == Read16(s.bus, Word(s.pc + 1))
  <2>1. FetchOK(s.bus, word, Words)
    BY <1>1, Read16Typed DEF FetchOK
  <2> HIDE DEF word
  <2>2. FetchOK(s.bus, ByWord(s, mode, word), Words)
    BY <1>1, <1>2, <2>1, ThroughTyped DEF ByWord, WordModes
  <2> QED
    BY <1>2, <2>2 DEF AddrFetch, word, WordModes
<1>3. CASE mode \in ByteModes
  <2> DEFINE byte == Read(s.bus, Word(s.pc + 1))
  <2>1. FetchOK(s.bus, byte, Byte)
    BY <1>1, ReadTyped DEF FetchOK
  <2> HIDE DEF byte
  <2>2. /\ FetchOK(s.bus, byte, Words)
        /\ FetchOK(s.bus, InZeroPage(byte, s.x), Words)
        /\ FetchOK(s.bus, InZeroPage(byte, s.y), Words)
    <3>1. FetchOK(s.bus, InZeroPage(byte, s.x), Byte) /\ FetchOK(s.bus, InZeroPage(byte, s.y), Byte)
      BY <1>1, <2>1, ZeroPageTyped
    <3> QED
      BY <1>1, <2>1, <3>1, ZeroPageTyped
  <2>3. /\ FetchOK(s.bus, Through(InZeroPage(byte, s.x)), Words)
        /\ FetchOK(s.bus, Through(byte), Words)
    BY <1>1, <2>2, ThroughTyped
  <2>4. FetchOK(s.bus, Indexed(Through(byte), s.y), Words)
    BY <1>1, <2>3, ThroughTyped
  <2>5. FetchOK(s.bus, ByByte(s, mode, byte), Words)
    BY <1>3, <2>2, <2>3, <2>4 DEF ByByte, ByteModes
  <2> QED
    BY <1>3, <2>5 DEF AddrFetch, byte, ByteModes
<1> QED
  BY <1>2, <1>3

LEMMA ValueFetchTyped ==
    ASSUME NEW s, StateTypeOK(s),
           NEW mode \in {"A", "REL", "IMM"} \union ByteModes \union WordModes
    PROVE  FetchOK(s.bus, ValueFetch(s, mode), Byte)
<1>1. s.a \in Byte /\ BusTypeOK(s.bus) /\ Word(s.pc + 1) \in Words
  BY StateParts, WordIs, Remainders
<1>2. CASE mode = "A"
  BY <1>1, <1>2, FollowsTransitively DEF ValueFetch, FetchOK
<1>3. CASE mode \in {"REL", "IMM"}
  BY <1>1, <1>3, ReadTyped DEF ValueFetch, FetchOK
<1>4. CASE mode \in ByteModes \union WordModes
  <2>1. FetchOK(s.bus, AddrFetch(s, mode), Words)
    BY <1>4, AddrFetchTyped
  <2>2. FetchOK(s.bus, ReadAt(AddrFetch(s, mode)), Byte)
    BY <1>1, <2>1, ThroughTyped
  <2>3. ValueFetch(s, mode) = ReadAt(AddrFetch(s, mode))
    BY <1>4 DEF ValueFetch, ByteModes, WordModes
  <2> QED BY <2>2, <2>3
<1> QED
  BY <1>2, <1>3, <1>4

(* The longest instruction lasts eight cycles.                              *)
LEMMA CycleCountTyped ==
    ASSUME NEW s, StateTypeOK(s), NEW i, i.op \in DOMAIN k, i.mode \in DOMAIN k[i.op]
    PROVE  FetchOK(s.bus, CycleCount(s, i), 2 .. 8)
<1>1. BaseCycles(i) \in 2 .. 7 /\ BusTypeOK(s.bus)
  BY BaseCyclesTyped, StateParts
<1>2. CASE ~Crosses(i)
  BY <1>1, <1>2, FollowsTransitively DEF CycleCount, FetchOK
<1>3. CASE Crosses(i)
  <2> DEFINE mode == IF i.mode = "INDY" THEN "IND" ELSE "ABS"
             base == AddrFetch(s, mode)
             t    == [s EXCEPT !.bus = base.bus]
             at   == AddrFetch(t, i.mode)
  <2>1. FetchOK(s.bus, base, Words)
    BY AddrFetchTyped DEF WordModes
  <2> HIDE DEF base
  <2>2. BusTypeOK(base.bus)
    BY <2>1 DEF FetchOK, OnlyRead, Follows
  <2>3. StateTypeOK(t) /\ t.bus = base.bus
    BY <2>2, StateWith
  <2> HIDE DEF t
  <2>4. i.mode \in ByteModes \union WordModes
    BY <1>3 DEF Crosses, ByteModes, WordModes
  <2>5. FetchOK(base.bus, at, Words)
    BY <2>3, <2>4, AddrFetchTyped
  <2>6. CycleCount(s, i) = [v |-> BaseCycles(i) + One(CrossedPage(base.v, at.v)), bus |-> at.bus]
    BY <1>3 DEF CycleCount, CountFrom, WithCrossing, base, t
  <2> HIDE DEF at
  <2>7. OnlyRead(s.bus, at.bus)
    BY <2>1, <2>5, FollowsTransitively DEF FetchOK
  <2>8. BaseCycles(i) + One(CrossedPage(base.v, at.v)) \in 2 .. 8
    BY <1>1 DEF One
  <2> QED
    BY <2>6, <2>7, <2>8 DEF FetchOK
<1> QED
  BY <1>2, <1>3

-----------------------------------------------------------------------------
(* The stack: it never throws, wherever SP_ points.                         *)
LEMMA StackWordTyped ==
    ASSUME NEW sp \in Byte
    PROVE  StackWord(sp) \in Words /\ \h100 + sp \in Words /\ (StackWord(sp) < \h200 \/ StackWord(sp) = \hFFFF)
  BY ByteIs, WordIs DEF StackWord

\* What calls on the stack and reads make of s.
Kept(s, t) == StateTypeOK(t) /\ Follows(s.bus, t.bus) /\ (t.bus.thrown <=> s.bus.thrown)

LEMMA KeptTransitively ==
    ASSUME NEW r, NEW s, NEW t
    PROVE  /\ StateTypeOK(s) => Kept(s, s)
           /\ Kept(r, s) /\ Kept(s, t) => Kept(r, t)
  BY StateParts, FollowsTransitively DEF Kept

LEMMA PushByteTyped ==
    ASSUME NEW s, StateTypeOK(s), NEW v \in Byte
    PROVE  Kept(s, PushByte(s, v)) /\ PushByte(s, v).pc = s.pc /\ PushByte(s, v).p = s.p
<1> DEFINE r  == Write(s.bus, \h100 + s.sp, v)
           t  == WithBus(s, r.bus)
           sp == (s.sp - 1) % 256
           u  == [t EXCEPT !.sp = sp]
<1>1. BusTypeOK(s.bus) /\ s.sp \in Byte /\ s.sp \in Int /\ \h100 + s.sp \in Words /\ \h100 + s.sp < \h200
  BY StateParts, StackWordTyped, ByteIs
<1>2. Follows(s.bus, r.bus) /\ (r.bus.thrown <=> s.bus.thrown)
  BY <1>1, WriteTyped DEF Faults
<1>3. BusTypeOK(r.bus)
  BY <1>2 DEF Follows
<1>4. StateTypeOK(t) /\ t.bus = r.bus /\ t.pc = s.pc /\ t.p = s.p /\ t.sp = s.sp
  <2> HIDE DEF r
  <2> QED BY <1>3, WithBusTyped
<1>5. PushByte(s, v) = GoingOn(t, u)
  BY <1>4 DEF PushByte
<1>6. sp \in Byte
  BY <1>1, Remainders
<1> HIDE DEF t, r, sp
<1>7. StateTypeOK(u) /\ u.bus = t.bus /\ u.pc = t.pc /\ u.p = t.p
  <2>1. StateTypeOK(u) /\ u.bus = t.bus
    BY <1>4, <1>6, StateWith
  <2>2. u.pc = t.pc /\ u.p = t.p
    BY <1>4 DEF StateTypeOK
  <2> QED BY <2>1, <2>2
<1> HIDE DEF u
<1> QED
  BY <1>2, <1>4, <1>5, <1>7, GoesOn DEF Kept

LEMMA PushWordTyped ==
    ASSUME NEW s, StateTypeOK(s), NEW w \in Words
    PROVE  Kept(s, PushWord(s, w)) /\ PushWord(s, w).pc = s.pc /\ PushWord(s, w).p = s.p
<1> DEFINE r  == Write16(s.bus, StackWord(s.sp), w)
           t  == WithBus(s, r.bus)
           sp == (s.sp - 2) % 256
           u  == [t EXCEPT !.sp = sp]
<1>1. /\ BusTypeOK(s.bus) /\ s.sp \in Byte /\ s.sp \in Int /\ StackWord(s.sp) \in Words
      /\ StackWord(s.sp) < \h200 \/ StackWord(s.sp) = \hFFFF
  BY StateParts, StackWordTyped, ByteIs
<1>2. Follows(s.bus, r.bus) /\ (r.bus.thrown <=> s.bus.thrown)
  <2>1. ~Faults(s.bus, StackWord(s.sp))
    BY <1>1, WordIs DEF Faults
  <2> QED
    BY <1>1, <2>1, Write16Typed
<1>3. BusTypeOK(r.bus)
  BY <1>2 DEF Follows
<1>4. StateTypeOK(t) /\ t.bus = r.bus /\ t.pc = s.pc /\ t.p = s.p /\ t.sp = s.sp
  <2> HIDE DEF r
  <2> QED BY <1>3, WithBusTyped
<1>5. PushWord(s, w) = GoingOn(t, u)
  BY <1>4 DEF PushWord
<1>6. sp \in Byte
  BY <1>1, Remainders
<1> HIDE DEF t, r, sp
<1>7. StateTypeOK(u) /\ u.bus = t.bus /\ u.pc = t.pc /\ u.p = t.p
  <2>1. StateTypeOK(u) /\ u.bus = t.bus
    BY <1>4, <1>6, StateWith
  <2>2. u.pc = t.pc /\ u.p = t.p
    BY <1>4 DEF StateTypeOK
  <2> QED BY <2>1, <2>2
<1> HIDE DEF u
<1> QED
  BY <1>2, <1>4, <1>5, <1>7, GoesOn DEF Kept

LEMMA PullByteTyped ==
    ASSUME NEW s, StateTypeOK(s)
    PROVE  PullByte(s).v \in Byte /\ Kept(s, PullByte(s).s)
<1> DEFINE sp == (s.sp + 1) % 256
           r  == Read(s.bus, \h100 + sp)
           t  == [s EXCEPT !.sp = sp]
<1>1. BusTypeOK(s.bus) /\ sp \in Byte
  BY StateParts, Remainders, ByteIs
<1> HIDE DEF sp
<1>2. \h100 + sp \in Words /\ \h100 + sp < \h200
  BY <1>1, StackWordTyped, ByteIs
<1>3. r.v \in Byte /\ OnlyRead(s.bus, r.bus) /\ (r.bus.thrown <=> s.bus.thrown)
  <2>1. ~Faults(s.bus, \h100 + sp)
    BY <1>2, WordIs DEF Faults
  <2> QED
    BY <1>1, <1>2, <2>1, ReadTyped
<1>4. BusTypeOK(r.bus)
  BY <1>3 DEF OnlyRead, Follows
<1>5. StateTypeOK(t) /\ t.bus = s.bus
  BY <1>1, StateWith
<1>6. PullByte(s) = [v |-> r.v, s |-> [t EXCEPT !.bus = r.bus]]
  BY DEF PullByte, sp
<1> HIDE DEF r, t
<1>7. StateTypeOK([t EXCEPT !.bus = r.bus]) /\ [t EXCEPT !.bus = r.bus].bus = r.bus
  BY <1>4, <1>5, StateWith
<1> DEFINE u == [t EXCEPT !.bus = r.bus]
<1>8. StateTypeOK(u) /\ u.bus = r.bus
  BY <1>7
<1> HIDE DEF u
<1>9. Kept(s, u)
  BY <1>3, <1>8 DEF Kept, OnlyRead
<1>10. PullByte(s).v = r.v /\ PullByte(s).s = u
  BY <1>6 DEF u
<1> QED
  BY <1>3, <1>9, <1>10

LEMMA PullWordTyped ==
    ASSUME NEW s, StateTypeOK(s)
    PROVE  PullWord(s).v \in Words /\ Kept(s, PullWord(s).s)
<1> DEFINE sp == (s.sp + 2) % 256
           r  == Read16(s.bus, StackWord(sp))
           t  == [s EXCEPT !.sp = sp]
<1>1. BusTypeOK(s.bus) /\ sp \in Byte
  BY StateParts, Remainders, ByteIs
<1> HIDE DEF sp
<1>2. /\ StackWord(sp) \in Words
      /\ ~Faults(s.bus, StackWord(sp)) /\ ~Faults(s.bus, Word(StackWord(sp) + 1))
  <2>1. StackWord(sp) \in Words /\ (StackWord(sp) < \h200 \/ StackWord(sp) = \hFFFF)
    BY <1>1, StackWordTyped
  <2>2. Word(StackWord(sp) + 1) <= \h200
    BY <2>1, WordIs DEF Word
  <2> QED
    BY <2>1, <2>2, WordIs, Remainders DEF Faults
<1>3. r.v \in Words /\ OnlyRead(s.bus, r.bus) /\ (r.bus.thrown <=> s.bus.thrown)
  BY <1>1, <1>2, Read16Typed
<1>4. BusTypeOK(r.bus)
  BY <1>3 DEF OnlyRead, Follows
<1>5. StateTypeOK(t) /\ t.bus = s.bus
  BY <1>1, StateWith
<1>6. PullWord(s) = [v |-> r.v, s |-> [t EXCEPT !.bus = r.bus]]
  BY DEF PullWord, sp
<1> HIDE DEF r, t
<1>7. StateTypeOK([t EXCEPT !.bus = r.bus]) /\ [t EXCEPT !.bus = r.bus].bus = r.bus
  BY <1>4, <1>5, StateWith
<1> DEFINE u == [t EXCEPT !.bus = r.bus]
<1>8. StateTypeOK(u) /\ u.bus = r.bus
  BY <1>7
<1> HIDE DEF u
<1>9. Kept(s, u)
  BY <1>3, <1>8 DEF Kept, OnlyRead
<1>10. PullWord(s).v = r.v /\ PullWord(s).s = u
  BY <1>6 DEF u
<1> QED
  BY <1>3, <1>9, <1>10

(* What execute may make of s: where an access threw, nothing but reads had *)
(* been done.                                                               *)
Clean(s, t) == StateTypeOK(t) /\ (t.bus.thrown => Untouched(s, t))

LEMMA GoingOnClean ==
    ASSUME NEW s, StateTypeOK(s), NEW b, OnlyRead(s.bus, b), NEW t, StateTypeOK(t), t.bus = b
    PROVE  LET u == GoingOn(WithBus(s, b), t)
           IN  StateTypeOK(u) /\ u.bus = b /\ Clean(s, u)
<1>1. BusTypeOK(b) /\ b.ram = s.bus.ram
  BY DEF OnlyRead, Follows
<1>2. StateTypeOK(WithBus(s, b)) /\ WithBus(s, b).bus = b /\ Untouched(s, WithBus(s, b))
  BY <1>1, WithBusTyped, BusUntouched
<1> QED
  BY <1>2, GoesOn DEF Clean

LEMMA JumpedTyped ==
    ASSUME NEW s, StateTypeOK(s), NEW at, FetchOK(s.bus, at, Words)
    PROVE  StateTypeOK(Jumped(s, at)) /\ Jumped(s, at).bus = at.bus /\ Clean(s, Jumped(s, at))
<1> DEFINE t == [s EXCEPT !.pc = at.v]
           u == [s EXCEPT !.pc = at.v, !.bus = at.bus]
<1>1. at.v \in Words /\ BusTypeOK(at.bus) /\ OnlyRead(s.bus, at.bus)
  BY DEF FetchOK, OnlyRead, Follows
<1>2. StateTypeOK(t) /\ u = [t EXCEPT !.bus = at.bus]
  BY <1>1, StateWith
<1> HIDE DEF t
<1>3. StateTypeOK(u) /\ u.bus = at.bus
  BY <1>1, <1>2, StateWith
<1>4. Jumped(s, at) = GoingOn(WithBus(s, at.bus), u)
  BY DEF Jumped
<1> HIDE DEF u
<1> QED
  BY <1>1, <1>3, <1>4, GoingOnClean

(* An interrupt, BRK's or the NMI: the vectors are in the cartridge, above  *)
(* where Mapper0 throws.                                                    *)
LEMMA InterruptedTyped ==
    ASSUME NEW s, StateTypeOK(s), NEW pc \in Words, NEW vector \in {\hFFFA, \hFFFE}
    PROVE  Kept(s, Interrupted(s, pc, vector))
<1> DEFINE q == PushWord(s, pc)
           t == PushByte(q, StatusByte(s.p))
           r == Read16(t.bus, vector)
<1>1. Kept(s, q)
  BY PushWordTyped
<1>2. StatusByte(s.p) \in Byte
  BY StateParts, StatusSurvivesStack
<1> HIDE DEF q
<1>3. Kept(q, t)
  BY <1>1, <1>2, PushByteTyped DEF Kept
<1>4. Interrupted(s, pc, vector) = Jumped(t, r)
  BY DEF Interrupted, q
<1> HIDE DEF t
<1>5. BusTypeOK(t.bus) /\ StateTypeOK(t)
  BY <1>3, StateParts DEF Kept
<1>6. vector \in Words /\ ~Faults(t.bus, vector) /\ ~Faults(t.bus, Word(vector + 1))
  BY WordIs DEF Faults, Word
<1>7. r.v \in Words /\ OnlyRead(t.bus, r.bus) /\ (r.bus.thrown <=> t.bus.thrown)
  BY <1>5, <1>6, Read16Typed
<1> HIDE DEF r
<1>8. Kept(t, Jumped(t, r))
  <2>1. StateTypeOK(Jumped(t, r)) /\ Jumped(t, r).bus = r.bus
    BY <1>5, <1>7, JumpedTyped DEF FetchOK
  <2> QED
    BY <1>7, <2>1 DEF Kept, OnlyRead
<1> QED
  BY <1>1, <1>3, <1>4, <1>8, KeptTransitively

-----------------------------------------------------------------------------
(* What the instructions compute are bytes and flags.                       *)
LEMMA DigitsTyped ==
    ASSUME NEW a \in Byte, NEW b \in Byte
    PROVE  BitAnd(a, b) \in Byte /\ BitOr(a, b) \in Byte /\ BitXor(a, b) \in Byte
<1>1. \A i, j \in {0, 1} : i * j \in {0, 1} /\ i + j - i * j \in {0, 1} /\ (i + j) % 2 \in {0, 1}
  OBVIOUS
<1>2. \A n \in Byte : \A w \in {1, 2, 4, 8, 16, 32, 64, 128} : (n \div w) % 2 \in {0, 1}
  BY ByteIs
<1>3. \A d1, d2, d3, d4, d5, d6, d7, d8 \in {0, 1} :
          1 * d1 + 2 * d2 + 4 * d3 + 8 * d4 + 16 * d5 + 32 * d6 + 64 * d7 + 128 * d8 \in Byte
  BY ByteIs
<1>4. BitAnd(a, b) \in Byte
  BY <1>1, <1>2, <1>3 DEF BitAnd, Bitwise
<1>5. BitOr(a, b) \in Byte
  BY <1>1, <1>2, <1>3 DEF BitOr, Bitwise
<1>6. BitXor(a, b) \in Byte
  <2>1. \A w \in {1, 2, 4, 8, 16, 32, 64, 128} : (((a \div w) % 2) + ((b \div w) % 2)) % 2 \in {0, 1}
    BY ByteIs
  <2> DEFINE x(w) == (((a \div w) % 2) + ((b \div w) % 2)) % 2
  <2>2. /\ x(1) \in {0, 1} /\ x(2) \in {0, 1} /\ x(4) \in {0, 1} /\ x(8) \in {0, 1}
        /\ x(16) \in {0, 1} /\ x(32) \in {0, 1} /\ x(64) \in {0, 1} /\ x(128) \in {0, 1}
    BY <2>1
  <2>3. BitXor(a, b) = 1 * x(1) + 2 * x(2) + 4 * x(4) + 8 * x(8) + 16 * x(16) + 32 * x(32)
                       + 64 * x(64) + 128 * x(128)
    BY DEF BitXor, Bitwise
  <2> HIDE DEF x
  <2> QED
    BY <1>3, <2>2, <2>3
<1> QED
  BY <1>4, <1>5, <1>6

\* A byte and the flags after it.
ResultOK(r) == r.v \in Byte /\ r.p \in SUBSET Flag

LEMMA ResultsTyped ==
    ASSUME NEW a \in Byte, NEW val \in Byte, NEW p \in SUBSET Flag
    PROVE  /\ ResultOK(ADC(a, val, p)) /\ ResultOK(SBC(a, val, p))
           /\ ResultOK(AND(a, val, p)) /\ ResultOK(ORA(a, val, p)) /\ ResultOK(EOR(a, val, p))
           /\ ResultOK(INC(val, p)) /\ ResultOK(DEC(val, p))
           /\ ResultOK(ASL(val, p)) /\ ResultOK(LSR(val, p))
           /\ ResultOK(ROL(val, p)) /\ ResultOK(ROR(val, p))
           /\ BIT(a, val, p) \in SUBSET Flag
<1>1. ADC(a, val, p).v \in Byte /\ SBC(a, val, p).v \in Byte
  <2>1. ADC(a, val, p).v \in Byte
    BY AdditionKeepsCarry
  <2>2. SBC(a, val, p).v \in Byte
    BY SubtractionLeavesBorrow
  <2> QED
    BY <2>1, <2>2
<1>2. \A v : ResultOK(Result(v, p)) <=> v \in Byte
  BY FlagsTyped DEF ResultOK, Result
<1>3. (val + 1) % 256 \in Byte /\ (val - 1) % 256 \in Byte
  BY ByteIs, Remainders
<1>4. /\ ASL(val, p).v \in Byte /\ LSR(val, p).v \in Byte /\ ROL(val, p).v \in Byte
      /\ ROR(val, p).v \in Byte
  BY ShiftsAreExact
<1>5. /\ ASL(val, p).p \in SUBSET Flag /\ LSR(val, p).p \in SUBSET Flag
      /\ ROL(val, p).p \in SUBSET Flag /\ ROR(val, p).p \in SUBSET Flag
  BY DEF ASL, LSR, ROL, ROR, Result, With, WithZN, Flag
<1>6. BIT(a, val, p) \in SUBSET Flag
  BY DEF BIT, With, Flag
<1>7. ResultOK(ADC(a, val, p)) /\ ResultOK(SBC(a, val, p))
  BY <1>1, FlagsTyped DEF ResultOK
<1>8. ResultOK(AND(a, val, p)) /\ ResultOK(ORA(a, val, p)) /\ ResultOK(EOR(a, val, p))
  BY <1>2, DigitsTyped DEF AND, ORA, EOR
<1>9. ResultOK(INC(val, p)) /\ ResultOK(DEC(val, p))
  BY <1>3, FlagsTyped DEF INC, DEC, ResultOK
<1> QED
  BY <1>4, <1>5, <1>6, <1>7, <1>8, <1>9 DEF ResultOK

-----------------------------------------------------------------------------
(* The families of instructions                                             *)

LEMMA AdvancedTyped ==
    ASSUME NEW s, NEW t, Clean(s, t), NEW i, i.mode \in Modes
    PROVE  Clean(s, Advanced(t, i))
<1>1. StateTypeOK(t) /\ t.pc \in Words /\ Size[i.mode] \in 1 .. 3
  BY StateParts, SizeTyped DEF Clean
<1>2. Word(t.pc + Size[i.mode]) \in Words
  BY <1>1, WordIs, Remainders
<1> DEFINE pc == Word(t.pc + Size[i.mode])
           u  == [t EXCEPT !.pc = pc]
<1>3. Advanced(t, i) = GoingOn(t, u)
  BY DEF Advanced
<1> HIDE DEF pc
<1>4. StateTypeOK(u) /\ u.bus = t.bus
  BY <1>1, <1>2, StateWith DEF pc
<1> HIDE DEF u
<1> QED
  BY <1>3, <1>4, GoesOn DEF Clean

LEMMA KeptIsClean ==
    ASSUME NEW s, ~s.bus.thrown, NEW t, Kept(s, t)
    PROVE  Clean(s, t)
  BY DEF Kept, Clean

LEMMA RegisterTyped ==
    ASSUME NEW s, StateTypeOK(s),
           NEW op \in {"LDA", "STA", "CMP", "LDX", "STX", "CPX", "INX", "DEX", "LDY", "STY",
                       "CPY", "INY", "DEY"}
    PROVE  Reg(op) \in {"a", "x", "y"} /\ s[Reg(op)] \in Byte
<1>1. Reg(op) \in {"a", "x", "y"}
  BY DEF Reg
<1>2. s["a"] \in Byte /\ s["x"] \in Byte /\ s["y"] \in Byte
  BY StateParts
<1> QED
  BY <1>1, <1>2

LEMMA LoadedClean ==
    ASSUME NEW s, StateTypeOK(s), NEW op \in {"LDA", "LDX", "LDY"}, NEW f, FetchOK(s.bus, f, Byte)
    PROVE  Clean(s, Loaded(s, op, f))
<1>1. f.v \in Byte /\ OnlyRead(s.bus, f.bus) /\ BusTypeOK(f.bus) /\ s.p \in SUBSET Flag
  BY StateParts DEF FetchOK, OnlyRead, Follows
<1> DEFINE p == WithZN(s.p, f.v)
<1>2. p \in SUBSET Flag
  BY <1>1, FlagsTyped
<1> HIDE DEF p
<1>3. CASE op = "LDA"
  <2> DEFINE t == [s EXCEPT !.a = f.v, !.p = p, !.bus = f.bus]
  <2>1. Loaded(s, op, f) = GoingOn(WithBus(s, f.bus), t)
    <3>1. [s EXCEPT ![Reg(op)] = f.v, !.p = WithZN(@, f.v), !.bus = f.bus] = t
      BY <1>3 DEF Reg, StateTypeOK, p
    <3> QED
      BY <3>1 DEF Loaded
  <2>2. StateTypeOK(t) /\ t.bus = f.bus
    BY <1>1, <1>2 DEF StateTypeOK
  <2> HIDE DEF t
  <2> QED
    BY <1>1, <2>1, <2>2, GoingOnClean
<1>4. CASE op = "LDX"
  <2> DEFINE t == [s EXCEPT !.x = f.v, !.p = p, !.bus = f.bus]
  <2>1. Loaded(s, op, f) = GoingOn(WithBus(s, f.bus), t)
    <3>1. [s EXCEPT ![Reg(op)] = f.v, !.p = WithZN(@, f.v), !.bus = f.bus] = t
      BY <1>4 DEF Reg, StateTypeOK, p
    <3> QED
      BY <3>1 DEF Loaded
  <2>2. StateTypeOK(t) /\ t.bus = f.bus
    BY <1>1, <1>2 DEF StateTypeOK
  <2> HIDE DEF t
  <2> QED
    BY <1>1, <2>1, <2>2, GoingOnClean
<1>5. CASE op = "LDY"
  <2> DEFINE t == [s EXCEPT !.y = f.v, !.p = p, !.bus = f.bus]
  <2>1. Loaded(s, op, f) = GoingOn(WithBus(s, f.bus), t)
    <3>1. [s EXCEPT ![Reg(op)] = f.v, !.p = WithZN(@, f.v), !.bus = f.bus] = t
      BY <1>5 DEF Reg, StateTypeOK, p
    <3> QED
      BY <3>1 DEF Loaded
  <2>2. StateTypeOK(t) /\ t.bus = f.bus
    BY <1>1, <1>2 DEF StateTypeOK
  <2> HIDE DEF t
  <2> QED
    BY <1>1, <2>1, <2>2, GoingOnClean
<1> QED
  BY <1>3, <1>4, <1>5

LEMMA WriteIsClean ==
    ASSUME NEW b, BusTypeOK(b), NEW a \in Words, NEW v \in Byte
    PROVE  LET c == Write(b, a, v).bus IN Follows(b, c) /\ (c.thrown => c.ram = b.ram)
<1> DEFINE c == Write(b, a, v).bus
<1>1. Follows(b, c) /\ (c.thrown <=> b.thrown \/ Faults(b, a))
  BY WriteTyped
<1>2. b.thrown \/ a >= \h2000 => c.ram = b.ram
  BY WriteTyped
<1> HIDE DEF c
<1>3. Faults(b, a) => a >= \h2000
  BY WordIs DEF Faults
<1> QED
  BY <1>1, <1>2, <1>3 DEF c

LEMMA StoredClean ==
    ASSUME NEW s, StateTypeOK(s), ~s.bus.thrown, NEW op \in Stores, NEW at, FetchOK(s.bus, at, Words)
    PROVE  Clean(s, Stored(s, op, at))
<1> DEFINE r == Write(at.bus, at.v, s[Reg(op)])
<1>1. BusTypeOK(at.bus) /\ at.v \in Words /\ OnlyRead(s.bus, at.bus) /\ s[Reg(op)] \in Byte
  BY RegisterTyped DEF FetchOK, OnlyRead, Follows, Stores
<1>2. Follows(at.bus, r.bus) /\ (r.bus.thrown => r.bus.ram = at.bus.ram)
  BY <1>1, WriteIsClean
<1> HIDE DEF r
<1>3. BusTypeOK(r.bus)
  BY <1>2 DEF Follows
<1>4. StateTypeOK(WithBus(s, r.bus)) /\ WithBus(s, r.bus).bus = r.bus
  BY <1>3, WithBusTyped
<1>5. Stored(s, op, at) = WithBus(s, r.bus)
  BY DEF Stored, r
<1>6. r.bus.thrown => Untouched(s, WithBus(s, r.bus))
  BY <1>1, <1>2, <1>3, BusUntouched DEF OnlyRead
<1> QED
  BY <1>4, <1>5, <1>6 DEF Clean

LEMMA ComputedClean ==
    ASSUME NEW s, StateTypeOK(s), NEW op \in {"ADC", "AND", "EOR", "ORA", "SBC"},
           NEW f, FetchOK(s.bus, f, Byte)
    PROVE  Clean(s, Computed(s, op, f))
<1> DEFINE r == CASE op = "ADC" -> ADC(s.a, f.v, s.p)
                  [] op = "SBC" -> SBC(s.a, f.v, s.p)
                  [] op = "AND" -> AND(s.a, f.v, s.p)
                  [] op = "ORA" -> ORA(s.a, f.v, s.p)
                  [] op = "EOR" -> EOR(s.a, f.v, s.p)
           t == [s EXCEPT !.a = r.v, !.p = r.p, !.bus = f.bus]
<1>1. f.v \in Byte /\ OnlyRead(s.bus, f.bus) /\ BusTypeOK(f.bus) /\ s.a \in Byte /\ s.p \in SUBSET Flag
  BY StateParts DEF FetchOK, OnlyRead, Follows
<1>2. ResultOK(r)
  BY <1>1, ResultsTyped
<1>3. Computed(s, op, f) = GoingOn(WithBus(s, f.bus), t)
  BY DEF Computed
<1> HIDE DEF r
<1>4. StateTypeOK(t) /\ t.bus = f.bus
  BY <1>1, <1>2 DEF StateTypeOK, ResultOK
<1> HIDE DEF t
<1> QED
  BY <1>1, <1>3, <1>4, GoingOnClean

LEMMA ComparedClean ==
    ASSUME NEW s, StateTypeOK(s), NEW op \in {"BIT", "CMP", "CPX", "CPY"},
           NEW f, FetchOK(s.bus, f, Byte)
    PROVE  Clean(s, Compared(s, op, f))
<1> DEFINE p == IF op = "BIT" THEN BIT(s.a, f.v, s.p) ELSE CMP(s[Reg(op)], f.v, s.p)
           t == [s EXCEPT !.p = p, !.bus = f.bus]
<1>1. f.v \in Byte /\ OnlyRead(s.bus, f.bus) /\ BusTypeOK(f.bus) /\ s.a \in Byte /\ s.p \in SUBSET Flag
  BY StateParts DEF FetchOK, OnlyRead, Follows
<1>2. p \in SUBSET Flag
  BY <1>1, ResultsTyped, FlagsTyped
<1>3. Compared(s, op, f) = GoingOn(WithBus(s, f.bus), t)
  BY DEF Compared, StateTypeOK
<1> HIDE DEF p
<1>4. StateTypeOK(t) /\ t.bus = f.bus
  BY <1>1, <1>2 DEF StateTypeOK
<1> HIDE DEF t
<1> QED
  BY <1>1, <1>3, <1>4, GoingOnClean

LEMMA ShiftedTyped ==
    ASSUME NEW op \in Modifies, NEW val \in Byte, NEW p \in SUBSET Flag
    PROVE  ResultOK(Shifted(op, val, p))
  BY ResultsTyped DEF Shifted, Modifies

LEMMA ModifiedClean ==
    ASSUME NEW s, StateTypeOK(s), ~s.bus.thrown, NEW i, i.op \in Modifies,
           i.mode \in {"A", "ZP", "ZPX", "ABS", "ABSX"}
    PROVE  Clean(s, Modified(s, i))
<1>1. s.a \in Byte /\ s.p \in SUBSET Flag /\ BusTypeOK(s.bus)
  BY StateParts
<1>2. CASE i.mode = "A"
  <2> DEFINE r == Shifted(i.op, s.a, s.p)
  <2>1. ResultOK(r)
    BY <1>1, ShiftedTyped
  <2>2. Modified(s, i) = [s EXCEPT !.a = r.v, !.p = r.p]
    BY <1>2 DEF Modified, ModifiedA
  <2> HIDE DEF r
  <2>3. /\ StateTypeOK([s EXCEPT !.a = r.v, !.p = r.p])
        /\ [s EXCEPT !.a = r.v, !.p = r.p].bus = s.bus
    BY <2>1 DEF StateTypeOK, ResultOK
  <2> QED
    BY <2>2, <2>3 DEF Clean
<1>3. CASE i.mode # "A"
  <2> DEFINE at == AddrFetch(s, i.mode)
             f  == ReadAt(at)
             r  == Shifted(i.op, f.v, s.p)
             w  == Write(f.bus, at.v, r.v)
  <2>1. FetchOK(s.bus, at, Words)
    BY <1>3, AddrFetchTyped DEF ByteModes, WordModes
  <2> DEFINE n == WithBus(s, w.bus)
             u == [n EXCEPT !.p = r.p]
  <2>2. Modified(s, i) = GoingOn(WithBus(s, f.bus),
                                 IF i.op \in {"INC", "DEC"} THEN GoingOn(n, u) ELSE u)
    BY <1>3 DEF Modified, ModifiedMemory, ModifiedAt
  <2>3. f = Read(at.bus, at.v)
    BY DEF ReadAt
  <2> HIDE DEF at
  <2>4. BusTypeOK(at.bus) /\ at.v \in Words /\ OnlyRead(s.bus, at.bus)
    BY <2>1 DEF FetchOK, OnlyRead, Follows
  <2>5. /\ f.v \in Byte /\ OnlyRead(at.bus, f.bus)
        /\ f.bus.thrown <=> at.bus.thrown \/ Faults(at.bus, at.v)
    BY <2>3, <2>4, ReadTyped
  <2> HIDE DEF f
  <2>6. /\ OnlyRead(s.bus, f.bus) /\ BusTypeOK(f.bus) /\ f.bus.ram = s.bus.ram
        /\ f.bus.cart.kind = at.bus.cart.kind
    BY <2>4, <2>5, FollowsTransitively DEF OnlyRead, Follows
  <2>7. ResultOK(r)
    BY <1>1, <2>5, ShiftedTyped
  <2> HIDE DEF r
  <2>8. Follows(f.bus, w.bus) /\ (w.bus.thrown <=> f.bus.thrown \/ Faults(f.bus, at.v))
    BY <2>4, <2>6, <2>7, WriteTyped DEF ResultOK
  <2>9. ~f.bus.thrown => ~w.bus.thrown
    BY <2>5, <2>6, <2>8 DEF Faults
  <2> HIDE DEF w
  <2>10. StateTypeOK(n) /\ n.bus = w.bus
    BY <2>8, WithBusTyped DEF Follows
  <2> HIDE DEF n
  <2>11. StateTypeOK(u) /\ u.bus = w.bus
    BY <2>7, <2>10, StateWith DEF ResultOK
  <2> HIDE DEF u
  <2>12. CASE f.bus.thrown
    <3>1. WithBus(s, f.bus).bus = f.bus /\ StateTypeOK(WithBus(s, f.bus))
      BY <2>6, WithBusTyped
    <3>2. Modified(s, i) = WithBus(s, f.bus)
      BY <2>2, <2>12, <3>1, GoesOn
    <3> QED
      BY <2>6, <3>1, <3>2, BusUntouched DEF Clean
  <2>13. CASE ~f.bus.thrown
    <3>1. WithBus(s, f.bus).bus = f.bus /\ ~w.bus.thrown
      BY <2>6, <2>9, <2>13, WithBusTyped
    <3>2. Modified(s, i) = u
      BY <2>2, <2>10, <2>13, <3>1, GoesOn
    <3> QED
      BY <2>11, <3>1, <3>2 DEF Clean
  <2> QED
    BY <2>12, <2>13
<1> QED
  BY <1>2, <1>3

LEMMA SteppedClean ==
    ASSUME NEW s, StateTypeOK(s), ~s.bus.thrown, NEW op \in {"DEX", "DEY", "INX", "INY"}
    PROVE  Clean(s, Stepped(s, op))
<1> DEFINE r == IF op \in {"INX", "INY"} THEN INC(s[Reg(op)], s.p) ELSE DEC(s[Reg(op)], s.p)
<1>1. s[Reg(op)] \in Byte /\ s.p \in SUBSET Flag
  BY RegisterTyped, StateParts
<1>2. ResultOK(r)
  BY <1>1, ResultsTyped
<1>3. Stepped(s, op) = [s EXCEPT ![Reg(op)] = r.v, !.p = r.p]
  BY DEF Stepped
<1> HIDE DEF r
<1>4. CASE op \in {"DEX", "INX"}
  <2>1. Stepped(s, op) = [s EXCEPT !.x = r.v, !.p = r.p]
    BY <1>3, <1>4 DEF Reg
  <2>2. /\ StateTypeOK([s EXCEPT !.x = r.v, !.p = r.p])
        /\ [s EXCEPT !.x = r.v, !.p = r.p].bus = s.bus
    BY <1>2 DEF StateTypeOK, ResultOK
  <2> QED
    BY <2>1, <2>2 DEF Clean
<1>5. CASE op \in {"DEY", "INY"}
  <2>1. Stepped(s, op) = [s EXCEPT !.y = r.v, !.p = r.p]
    BY <1>3, <1>5 DEF Reg
  <2>2. /\ StateTypeOK([s EXCEPT !.y = r.v, !.p = r.p])
        /\ [s EXCEPT !.y = r.v, !.p = r.p].bus = s.bus
    BY <1>2 DEF StateTypeOK, ResultOK
  <2> QED
    BY <2>1, <2>2 DEF Clean
<1> QED
  BY <1>4, <1>5

LEMMA TransferredClean ==
    ASSUME NEW s, StateTypeOK(s), ~s.bus.thrown, NEW op \in {"TAX", "TAY", "TSX", "TXA", "TXS", "TYA"}
    PROVE  Clean(s, Transferred(s, op))
<1>1. s.p \in SUBSET Flag /\ s.a \in Byte /\ s.x \in Byte /\ s.y \in Byte /\ s.sp \in Byte
  BY StateParts
<1>2. \A v : WithZN(s.p, v) \in SUBSET Flag
  BY <1>1, FlagsTyped
<1>3. \A v \in Byte : \A q \in SUBSET Flag :
          /\ StateTypeOK([s EXCEPT !.sp = v]) /\ [s EXCEPT !.sp = v].bus = s.bus
          /\ StateTypeOK([s EXCEPT !.a = v, !.p = q]) /\ [s EXCEPT !.a = v, !.p = q].bus = s.bus
          /\ StateTypeOK([s EXCEPT !.x = v, !.p = q]) /\ [s EXCEPT !.x = v, !.p = q].bus = s.bus
          /\ StateTypeOK([s EXCEPT !.y = v, !.p = q]) /\ [s EXCEPT !.y = v, !.p = q].bus = s.bus
  BY DEF StateTypeOK
<1>4. StateTypeOK(Transferred(s, op)) /\ Transferred(s, op).bus = s.bus
  <2>1. CASE op = "TXS"
    BY <1>1, <1>3, <2>1 DEF Transferred
  <2>2. CASE op = "TSX"
    BY <1>1, <1>2, <1>3, <2>2 DEF Transferred
  <2>3. CASE op = "TAX"
    BY <1>1, <1>2, <1>3, <2>3 DEF Transferred
  <2>4. CASE op = "TAY"
    BY <1>1, <1>2, <1>3, <2>4 DEF Transferred
  <2>5. CASE op = "TXA"
    BY <1>1, <1>2, <1>3, <2>5 DEF Transferred
  <2>6. CASE op = "TYA"
    BY <1>1, <1>2, <1>3, <2>6 DEF Transferred
  <2> QED
    BY <2>1, <2>2, <2>3, <2>4, <2>5, <2>6
<1> QED
  BY <1>4 DEF Clean

LEMMA FlagSetClean ==
    ASSUME NEW s, StateTypeOK(s), ~s.bus.thrown, NEW op \in {"CLC", "CLD", "CLI", "CLV", "SEC", "SED", "SEI"}
    PROVE  Clean(s, FlagSet(s, op))
<1>1. s.p \in SUBSET Flag
  BY StateParts
<1> DEFINE q == CASE op = "CLC" -> s.p \ {"C"}
                  [] op = "CLD" -> s.p \ {"D"}
                  [] op = "CLI" -> s.p \ {"I"}
                  [] op = "CLV" -> s.p \ {"V"}
                  [] op = "SEC" -> s.p \union {"C"}
                  [] op = "SED" -> s.p \union {"D"}
                  [] op = "SEI" -> s.p \union {"I"}
<1>2. q \in SUBSET Flag
  BY <1>1 DEF Flag
<1>3. FlagSet(s, op) = [s EXCEPT !.p = q]
  BY DEF FlagSet, StateTypeOK
<1> HIDE DEF q
<1>4. StateTypeOK([s EXCEPT !.p = q]) /\ [s EXCEPT !.p = q].bus = s.bus
  BY <1>2, StateWith
<1> QED
  BY <1>3, <1>4 DEF Clean

LEMMA BranchedClean ==
    ASSUME NEW s, StateTypeOK(s), NEW op, NEW f, FetchOK(s.bus, f, Byte)
    PROVE  Clean(s, Branched(s, op, f))
<1> DEFINE pc == Word(s.pc + Size["REL"] + (IF Taken(op, s.p) THEN Signed(f.v) ELSE 0))
           t  == [s EXCEPT !.pc = pc]
           u  == [s EXCEPT !.pc = pc, !.bus = f.bus]
           by == IF Taken(op, s.p) THEN Signed(f.v) ELSE 0
           n  == Size["REL"]
<1>1. s.pc \in Words /\ f.v \in Byte /\ BusTypeOK(f.bus) /\ OnlyRead(s.bus, f.bus)
  BY StateParts DEF FetchOK, OnlyRead, Follows
<1>2. pc \in Words
  <2>1. s.pc \in Int /\ n \in Int /\ Signed(f.v) \in Int
    BY <1>1, WordIs, ByteIs DEF Size, Signed
  <2>2. by \in Int
    BY <2>1
  <2> HIDE DEF by, n
  <2>3. Word(s.pc + n + by) \in Words
    BY <2>1, <2>2, Remainders
  <2> QED
    BY <2>3 DEF by, n
<1>3. Branched(s, op, f) = GoingOn(WithBus(s, f.bus), u) /\ u = [t EXCEPT !.bus = f.bus]
  BY DEF Branched, StateTypeOK
<1> HIDE DEF pc
<1>4. StateTypeOK(t)
  BY <1>2, StateWith
<1> HIDE DEF t
<1>5. StateTypeOK(u) /\ u.bus = f.bus
  BY <1>1, <1>3, <1>4, StateWith
<1>6. Branched(s, op, f) = GoingOn(WithBus(s, f.bus), u)
  BY <1>3
<1> HIDE DEF u
<1> QED
  BY <1>1, <1>5, <1>6, GoingOnClean

(* JSR: its opcode is not what the bus floats at, so that it is not read    *)
(* from just below the addresses where Mapper0 throws, and its operand not  *)
(* from there.                                                              *)
LEMMA FloatingBus ==
    ASSUME NEW b, BusTypeOK(b), NEW a \in Words, \h4018 <= a, a < \h4020
    PROVE  Read(b, a).v = \hAA
  BY WordIs DEF Read, ReadLive, Between, OpenBus

LEMMA CalledClean ==
    ASSUME NEW s, StateTypeOK(s), ~s.bus.thrown,
           NEW b, BusTypeOK(b), s.bus.cart.kind = b.cart.kind, ~Faults(b, s.pc),
           Read(b, s.pc).v = \h20
    PROVE  Clean(s, Called(s)) /\ ~Called(s).bus.thrown
<1> DEFINE t  == PushWord(s, Word(s.pc + 2))
           at == AddrFetch(t, "ABS")
<1>1. s.pc \in Words /\ s.pc \in Int /\ Word(s.pc + 2) \in Words
  BY StateParts, WordIs, Remainders
<1>2. Kept(s, t) /\ t.pc = s.pc
  BY <1>1, PushWordTyped
<1>3. Called(s) = Jumped(t, at)
  BY DEF Called
<1> HIDE DEF t
<1>4. /\ StateTypeOK(t) /\ BusTypeOK(t.bus) /\ ~t.bus.thrown /\ t.bus.cart.kind = b.cart.kind
      /\ t.bus.attached = s.bus.attached
  BY <1>2, StateParts DEF Kept, Follows
<1>5. at = Read16(t.bus, Word(s.pc + 1)) /\ Word(s.pc + 1) \in Words
  BY <1>1, <1>2, Remainders DEF AddrFetch, ByWord
<1>6. ~Faults(t.bus, Word(s.pc + 1)) /\ ~Faults(t.bus, Word(Word(s.pc + 1) + 1))
  <2>1. s.pc < \h4018 \/ s.pc >= \h4020
    BY <1>1, FloatingBus
  <2>2. b.cart.kind = "Mapper0" => s.pc < \h4018 \/ s.pc >= \h6000
    BY <1>1, <2>1 DEF Faults
  <2>3. s.pc < \h4018 \/ s.pc >= \h6000 =>
           /\ Word(s.pc + 1) < \h4020 \/ Word(s.pc + 1) >= \h6000
           /\ Word(Word(s.pc + 1) + 1) < \h4020 \/ Word(Word(s.pc + 1) + 1) >= \h6000
    BY <1>1, WordIs DEF Word
  <2>4. t.bus.cart.kind = "Mapper0" =>
           /\ Word(s.pc + 1) < \h4020 \/ Word(s.pc + 1) >= \h6000
           /\ Word(Word(s.pc + 1) + 1) < \h4020 \/ Word(Word(s.pc + 1) + 1) >= \h6000
    BY <1>4, <2>2, <2>3
  <2>5. Word(s.pc + 1) \in Int /\ Word(Word(s.pc + 1) + 1) \in Int
    BY <1>1, WordIs, Remainders
  <2> QED
    BY <2>4, <2>5 DEF Faults
<1>7. at.v \in Words /\ OnlyRead(t.bus, at.bus) /\ ~at.bus.thrown
  BY <1>4, <1>5, <1>6, Read16Typed
<1> HIDE DEF at
<1>8. StateTypeOK(Jumped(t, at)) /\ Jumped(t, at).bus = at.bus
  BY <1>4, <1>7, JumpedTyped DEF FetchOK
<1> QED
  BY <1>3, <1>7, <1>8 DEF Clean

LEMMA ReturnedClean ==
    ASSUME NEW s, StateTypeOK(s), ~s.bus.thrown
    PROVE  Clean(s, Returned(s)) /\ Clean(s, ReturnedFromInterrupt(s))
<1>1. Clean(s, Returned(s))
  <2> DEFINE w == PullWord(s)
             pc == Word(w.v + 1)
             u == [w.s EXCEPT !.pc = pc]
  <2>1. w.v \in Words /\ Kept(s, w.s)
    BY PullWordTyped
  <2>2. Returned(s) = GoingOn(w.s, u)
    BY DEF Returned
  <2> HIDE DEF w
  <2>3. pc \in Words
    BY <2>1, WordIs, Remainders
  <2> HIDE DEF pc
  <2>4. StateTypeOK(u) /\ u.bus = w.s.bus
    BY <2>1, <2>3, StateWith DEF Kept
  <2> HIDE DEF u
  <2> QED
    BY <2>1, <2>2, <2>4, GoesOn DEF Clean, Kept
<1>2. ASSUME NEW q, StateTypeOK(q), ~q.bus.thrown
      PROVE  StateTypeOK(ReturnedWith(q)) /\ ~ReturnedWith(q).bus.thrown
  <2> DEFINE w == PullWord(q)
             u == [w.s EXCEPT !.pc = w.v]
  <2>1. w.v \in Words /\ Kept(q, w.s)
    BY <1>2, PullWordTyped
  <2>2. ReturnedWith(q) = GoingOn(w.s, u)
    BY DEF ReturnedWith
  <2> HIDE DEF w
  <2>3. StateTypeOK(u) /\ u.bus = w.s.bus
    BY <2>1, StateWith DEF Kept
  <2> HIDE DEF u
  <2> QED
    BY <1>2, <2>1, <2>2, <2>3, GoesOn DEF Kept
<1>3. Clean(s, ReturnedFromInterrupt(s))
  <2> DEFINE b == PullByte(s)
             p == Flags(b.v)
             q == [b.s EXCEPT !.p = p]
  <2>1. Kept(s, b.s)
    BY PullByteTyped
  <2>2. ReturnedFromInterrupt(s) = GoingOn(b.s, ReturnedWith(q))
    BY DEF ReturnedFromInterrupt
  <2>3. p \in SUBSET Flag
    BY DEF Flags
  <2> HIDE DEF b, p
  <2>4. StateTypeOK(q) /\ q.bus = b.s.bus
    BY <2>1, <2>3, StateWith DEF Kept
  <2> HIDE DEF q
  <2> QED
    BY <1>2, <2>1, <2>2, <2>4, GoesOn DEF Clean, Kept
<1> QED
  BY <1>1, <1>3

LEMMA BrokenClean ==
    ASSUME NEW s, StateTypeOK(s), ~s.bus.thrown
    PROVE  Clean(s, Broken(s))
<1> DEFINE t == Interrupted(s, Word(s.pc + 1), \hFFFE)
           p == t.p \union {"B"}
<1>1. Word(s.pc + 1) \in Words
  BY StateParts, WordIs, Remainders
<1>2. Kept(s, t)
  BY <1>1, InterruptedTyped
<1>3. Broken(s) = GoingOn(t, [t EXCEPT !.p = t.p \union {"B"}])
  <2> HIDE DEF t
  <2>1. StateTypeOK(t)
    BY <1>2 DEF Kept
  <2>2. Broken(s) = GoingOn(t, [t EXCEPT !.p = @ \union {"B"}])
    BY DEF Broken, t
  <2> QED
    BY <2>1, <2>2 DEF StateTypeOK
<1> HIDE DEF t
<1>4. p \in SUBSET Flag
  BY <1>2, StateParts DEF Kept, Flag
<1> HIDE DEF p
<1> DEFINE u == [t EXCEPT !.p = p]
<1>5. StateTypeOK(u) /\ u.bus = t.bus
  BY <1>2, <1>4, StateWith DEF Kept
<1>6. Broken(s) = GoingOn(t, u)
  BY <1>3 DEF p
<1> HIDE DEF u
<1> QED
  BY <1>2, <1>5, <1>6, GoesOn DEF Clean, Kept

LEMMA PushedClean ==
    ASSUME NEW s, StateTypeOK(s), ~s.bus.thrown, NEW op
    PROVE  Clean(s, Pushed(s, op))
<1>1. s.a \in Byte /\ StatusByte(s.p) \in Byte
  BY StateParts, StatusSurvivesStack
<1> DEFINE v == IF op = "PHA" THEN s.a ELSE StatusByte(s.p)
<1>2. v \in Byte /\ Pushed(s, op) = PushByte(s, v)
  BY <1>1 DEF Pushed
<1> HIDE DEF v
<1>3. Kept(s, PushByte(s, v))
  BY <1>2, PushByteTyped
<1> QED
  BY <1>2, <1>3, KeptIsClean

LEMMA PulledClean ==
    ASSUME NEW s, StateTypeOK(s), ~s.bus.thrown, NEW op
    PROVE  Clean(s, Pulled(s, op))
<1> DEFINE b == PullByte(s)
           p == IF op = "PLA" THEN WithZN(b.s.p, b.v) ELSE WithZN(Flags(b.v), b.v)
           t == IF op = "PLA" THEN [b.s EXCEPT !.a = b.v] ELSE b.s
<1>1. b.v \in Byte /\ Kept(s, b.s)
  BY PullByteTyped
<1>2. Pulled(s, op) = GoingOn(b.s, [t EXCEPT !.p = p])
  <2> HIDE DEF b
  <2>1. StateTypeOK(b.s)
    BY <1>1 DEF Kept
  <2>2. Pulled(s, op) = GoingOn(b.s, IF op = "PLA" THEN [b.s EXCEPT !.a = b.v, !.p = WithZN(@, b.v)]
                                      ELSE [b.s EXCEPT !.p = WithZN(Flags(b.v), b.v)])
    BY DEF Pulled, b
  <2> QED
    BY <2>1, <2>2 DEF StateTypeOK
<1> HIDE DEF b
<1>3. Flags(b.v) \in SUBSET Flag /\ b.s.p \in SUBSET Flag
  BY <1>1, StateParts DEF Flags, Kept
<1>4. p \in SUBSET Flag
  BY <1>3, FlagsTyped
<1>5. StateTypeOK(t) /\ t.bus = b.s.bus
  BY <1>1, StateWith DEF Kept
<1> HIDE DEF p, t
<1> DEFINE u == [t EXCEPT !.p = p]
<1>6. StateTypeOK(u) /\ u.bus = t.bus
  BY <1>4, <1>5, StateWith
<1>7. Pulled(s, op) = GoingOn(b.s, u)
  BY <1>2
<1> HIDE DEF u
<1> QED
  BY <1>1, <1>5, <1>6, <1>7, GoesOn DEF Clean, Kept

-----------------------------------------------------------------------------
(* A cycle                                                                  *)
LEMMA FetchedTyped ==
    ASSUME MachineTypeOK
    PROVE  /\ StateTypeOK(Fetched) /\ OnlyRead(cpu.bus, Fetched.bus) /\ Fetched.bus = Opcode.bus
           /\ Fetched.pc = cpu.pc /\ Opcode.v \in Byte
           /\ Fetched.bus.thrown <=> Faults(cpu.bus, cpu.pc)
           /\ Untouched(cpu, Fetched)
<1>1. StateTypeOK(cpu) /\ BusTypeOK(cpu.bus) /\ cpu.pc \in Words /\ ~cpu.bus.thrown
  BY StateParts DEF MachineTypeOK
<1>2. /\ Opcode.v \in Byte /\ OnlyRead(cpu.bus, Opcode.bus)
      /\ Opcode.bus.thrown <=> Faults(cpu.bus, cpu.pc)
  BY <1>1, ReadTyped DEF Opcode
<1> DEFINE c == Opcode.bus
<1>3. BusTypeOK(c) /\ c.ram = cpu.bus.ram /\ Fetched = WithBus(cpu, c)
  BY <1>2 DEF OnlyRead, Follows, Fetched
<1> HIDE DEF c
<1>4. StateTypeOK(Fetched) /\ Fetched.bus = c /\ Fetched.pc = cpu.pc /\ Untouched(cpu, Fetched)
  BY <1>1, <1>3, WithBusTyped, BusUntouched
<1> QED
  BY <1>2, <1>4 DEF c

\* What a step that leaves todo as it is leaves as it is.
NothingHalfDone == cpu'.bus.ram = cpu.bus.ram /\ [cpu' EXCEPT !.bus = cpu.bus] = cpu

LEMMA CaughtTyped ==
    ASSUME MachineTypeOK, NEW s, StateTypeOK(s), Caught(s)
    PROVE  MachineTypeOK' /\ (Untouched(cpu, s) => NothingHalfDone)
<1>0. PICK f \in BOOLEAN : ~f
  OBVIOUS
<1> DEFINE c == [s.bus EXCEPT !.thrown = FALSE]
<1>1. BusTypeOK(c) /\ c.ram = s.bus.ram /\ ~c.thrown
  <2> DEFINE d == [s.bus EXCEPT !.thrown = f]
  <2>1. c = d
    BY <1>0
  <2>2. BusTypeOK(d) /\ d.ram = s.bus.ram /\ d.thrown = f
    BY StateParts, BusWithThrown
  <2> HIDE DEF c, d
  <2> QED
    BY <1>0, <2>1, <2>2
<1>2. cpu' = WithBus(s, c) /\ todo' = todo
  BY DEF Caught, WithBus
<1> HIDE DEF c
<1>3. StateTypeOK(cpu) /\ todo \in 0 .. 8
  BY DEF MachineTypeOK
<1>4. StateTypeOK(cpu') /\ cpu'.bus = c
  BY <1>1, <1>2, WithBusTyped
<1>5. ASSUME Untouched(cpu, s)
      PROVE  NothingHalfDone
  <2> DEFINE b == s.bus
  <2>1. s = WithBus(cpu, b) /\ s.bus.ram = cpu.bus.ram
    BY <1>5 DEF Untouched
  <2> HIDE DEF b
  <2>2. cpu' = WithBus(cpu, c)
    BY <1>2, <1>3, <2>1, WithBusAgain
  <2>3. WithBus(cpu', cpu.bus) = cpu
    BY <1>3, <2>2, WithBusAgain
  <2>4. [cpu' EXCEPT !.bus = cpu.bus] = cpu
    BY <2>3 DEF WithBus
  <2> QED
    BY <1>1, <1>4, <2>1, <2>4 DEF NothingHalfDone
<1>6. MachineTypeOK'
  BY <1>1, <1>2, <1>3, <1>4 DEF MachineTypeOK
<1> QED
  BY <1>5, <1>6

\* What every cycle keeps to.
CycleOK == MachineTypeOK' /\ (todo' = todo => NothingHalfDone)

LEMMA ExecutesClean ==
    ASSUME MachineTypeOK, NEW ops, NEW t, Executes(ops, t),
           ~Fetched.bus.thrown /\ Opcode.v \in Valid /\ Instruction.op \in ops => Clean(Fetched, t)
    PROVE  CycleOK
<1>1. todo = 1 /\ Clean(Fetched, t)
  BY DEF Executes
<1>2. StateTypeOK(t) /\ (t.bus.thrown => Untouched(cpu, t))
  BY <1>1, FetchedTyped, UntouchedTransitively DEF Clean, MachineTypeOK
<1>3. CASE t.bus.thrown
  BY <1>2, <1>3, CaughtTyped DEF Executes, CycleOK
<1>4. CASE ~t.bus.thrown
  BY <1>1, <1>2, <1>4 DEF Executes, CycleOK, MachineTypeOK
<1> QED
  BY <1>3, <1>4

LEMMA StartTyped ==
    ASSUME MachineTypeOK, Start
    PROVE  CycleOK
<1>1. StateTypeOK(cpu) /\ StateTypeOK(Fetched) /\ ~Fetched.bus.thrown /\ ~Invalid
  BY FetchedTyped DEF MachineTypeOK, Start, StartThrows
<1>2. Opcode.v \in Valid
  BY <1>1 DEF Invalid
<1>3. FetchOK(Fetched.bus, Count, 2 .. 8)
  BY <1>1, <1>2, Decodes, CycleCountTyped DEF Count, Instruction
<1>4. ~Count.bus.thrown /\ todo = 0 /\ todo' = Count.v - 1 /\ cpu' = WithBus(cpu, Count.bus)
  BY <1>1 DEF Start, StartThrows
<1>5. BusTypeOK(Count.bus) /\ Count.v \in 2 .. 8
  BY <1>3 DEF FetchOK, OnlyRead, Follows
<1>6. StateTypeOK(cpu') /\ cpu'.bus = Count.bus
  BY <1>1, <1>4, <1>5, WithBusTyped
<1> QED
  BY <1>4, <1>5, <1>6 DEF CycleOK, MachineTypeOK

LEMMA ThrowAtStartTyped ==
    ASSUME MachineTypeOK, ThrowAtStart
    PROVE  CycleOK
<1>1. /\ StateTypeOK(Fetched) /\ OnlyRead(cpu.bus, Fetched.bus) /\ StateTypeOK(cpu)
      /\ Untouched(cpu, Fetched)
  BY FetchedTyped DEF MachineTypeOK
<1>2. CASE Opcode.v \in Valid
  <2> DEFINE b == Count.bus
  <2>1. FetchOK(Fetched.bus, Count, 2 .. 8)
    BY <1>1, <1>2, Decodes, CycleCountTyped DEF Count, Instruction
  <2>2. BusTypeOK(b) /\ b.ram = cpu.bus.ram
    BY <1>1, <2>1 DEF FetchOK, OnlyRead, Follows
  <2>3. Caught(WithBus(cpu, b))
    BY <1>2 DEF ThrowAtStart
  <2> HIDE DEF b
  <2>4. StateTypeOK(WithBus(cpu, b)) /\ Untouched(cpu, WithBus(cpu, b))
    BY <1>1, <2>2, WithBusTyped, BusUntouched
  <2> QED
    BY <2>3, <2>4, CaughtTyped DEF CycleOK
<1>3. CASE Opcode.v \notin Valid
  BY <1>1, <1>3, CaughtTyped DEF ThrowAtStart, CycleOK
<1> QED
  BY <1>2, <1>3

LEMMA IgnoreTyped ==
    ASSUME MachineTypeOK, Ignore
    PROVE  CycleOK
  BY FetchedTyped DEF Ignore, CycleOK, MachineTypeOK, Invalid

LEMMA FinishTyped ==
    ASSUME MachineTypeOK, Finish
    PROVE  CycleOK
<1> DEFINE s == Fetched
           i == Instruction
<1>1. StateTypeOK(s) /\ BusTypeOK(s.bus) /\ OnlyRead(cpu.bus, s.bus) /\ BusTypeOK(cpu.bus)
  BY FetchedTyped, StateParts DEF MachineTypeOK
<1>2. Opcode.v \in Valid =>
          /\ i.op \in DOMAIN k /\ i.mode \in DOMAIN k[i.op] /\ Opcode.v = k[i.op][i.mode]
          /\ i.mode \in Modes
  BY Decodes, FamilyModes DEF Instruction
<1>3. ASSUME Opcode.v \in Valid, NEW t, Clean(s, t)
      PROVE  Clean(s, Then(t))
  BY <1>2, <1>3, AdvancedTyped DEF Then
<1>4. ASSUME Opcode.v \in Valid, Op \in Reads
      PROVE  FetchOK(s.bus, Operand, Byte)
  BY <1>1, <1>2, <1>4, FamilyModes, ValueFetchTyped DEF Op, Operand
<1> HIDE DEF s, i
<1>5. CASE Load
  BY <1>1, <1>3, <1>4, <1>5, LoadedClean, ExecutesClean DEF Load, Op, Reads, s
<1>6. CASE Store
  <2>1. ASSUME Opcode.v \in Valid, Op \in Stores
        PROVE  FetchOK(s.bus, Address, Words)
    BY <1>1, <1>2, <2>1, FamilyModes, AddrFetchTyped DEF Op, Address, s, i
  <2> QED
    BY <1>1, <1>3, <1>6, <2>1, StoredClean, ExecutesClean DEF Store, Op, s
<1>7. CASE Compute
  BY <1>1, <1>3, <1>4, <1>7, ComputedClean, ExecutesClean DEF Compute, Op, Reads, s
<1>8. CASE Compare
  BY <1>1, <1>3, <1>4, <1>8, ComparedClean, ExecutesClean DEF Compare, Op, Reads, s
<1>9. CASE Modify
  BY <1>1, <1>2, <1>3, <1>9, FamilyModes, ModifiedClean, ExecutesClean DEF Modify, s, i
<1>10. CASE StepIndex
  BY <1>1, <1>3, <1>10, SteppedClean, ExecutesClean DEF StepIndex, Op, s
<1>11. CASE Transfer
  BY <1>1, <1>3, <1>11, TransferredClean, ExecutesClean DEF Transfer, Op, s
<1>12. CASE SetFlag
  BY <1>1, <1>3, <1>12, FlagSetClean, ExecutesClean DEF SetFlag, Op, s
<1>13. CASE NoOp
  <2>1. ~s.bus.thrown => Clean(s, s)
    BY <1>1 DEF Clean
  <2> QED
    BY <1>1, <1>3, <1>13, <2>1, ExecutesClean DEF NoOp, s
<1>14. CASE Branch
  <2>1. ASSUME Opcode.v \in Valid, Op \in {"BCC", "BCS", "BEQ", "BMI", "BNE", "BPL", "BVC", "BVS"}
        PROVE  FetchOK(s.bus, Operand, Byte)
    BY <1>1, <1>2, <2>1, FamilyModes, ValueFetchTyped DEF Op, Operand, s, i
  <2> QED
    BY <1>1, <1>14, <2>1, BranchedClean, ExecutesClean DEF Branch, Op, s
<1>15. CASE Jump
  <2>1. ASSUME Opcode.v \in Valid, Op = "JMP"
        PROVE  FetchOK(s.bus, Address, Words)
    BY <1>1, <1>2, <2>1, FamilyModes, AddrFetchTyped DEF Op, Address, WordModes, s, i
  <2> QED
    BY <1>1, <1>15, <2>1, JumpedTyped, ExecutesClean DEF Jump, Op, s
<1>16. CASE Call
  <2>1. ASSUME ~s.bus.thrown, Opcode.v \in Valid, Op = "JSR"
        PROVE  Clean(s, Called(s))
    <3>1. Read(cpu.bus, s.pc).v = \h20 /\ ~Faults(cpu.bus, s.pc)
      BY <1>2, <2>1, FetchedTyped, FamilyModes DEF Op, Opcode, s, i
    <3>2. s.bus.cart.kind = cpu.bus.cart.kind
      BY <1>1 DEF OnlyRead, Follows
    <3> QED
      BY <1>1, <2>1, <3>1, <3>2, CalledClean
  <2> QED
    BY <1>16, <2>1, ExecutesClean DEF Call, Op, s
<1>17. CASE Return
  BY <1>1, <1>17, ReturnedClean, ExecutesClean DEF Return, s
<1>18. CASE EndOfInterrupt
  BY <1>1, <1>18, ReturnedClean, ExecutesClean DEF EndOfInterrupt, s
<1>19. CASE Break
  BY <1>1, <1>19, BrokenClean, ExecutesClean DEF Break, s
<1>20. CASE PushOne
  BY <1>1, <1>3, <1>20, PushedClean, ExecutesClean DEF PushOne, s
<1>21. CASE PullOne
  BY <1>1, <1>3, <1>21, PulledClean, ExecutesClean DEF PullOne, s
<1>22. CASE Ignore
  BY <1>22, IgnoreTyped
<1>23. CASE ThrowAtEnd
  BY <1>23, FetchedTyped, CaughtTyped DEF ThrowAtEnd, CycleOK
<1> QED
  BY <1>5, <1>6, <1>7, <1>8, <1>9, <1>10, <1>11, <1>12, <1>13, <1>14, <1>15, <1>16, <1>17, <1>18,
     <1>19, <1>20, <1>21, <1>22, <1>23 DEF Finish

LEMMA CycleTyped ==
    ASSUME MachineTypeOK, Cycle
    PROVE  CycleOK
<1>1. CASE Wait
  BY <1>1 DEF Wait, CycleOK, MachineTypeOK
<1> QED
  BY <1>1, StartTyped, ThrowAtStartTyped, FinishTyped DEF Cycle

LEMMA TriggerNmiTyped ==
    ASSUME MachineTypeOK, TriggerNmi
    PROVE  MachineTypeOK'
<1>1. StateTypeOK(cpu) /\ cpu.pc \in Words /\ ~cpu.bus.thrown
  BY StateParts DEF MachineTypeOK
<1>2. Kept(cpu, Interrupted(cpu, cpu.pc, \hFFFA))
  BY <1>1, InterruptedTyped
<1>3. todo' \in 0 .. 8
  BY DEF TriggerNmi, MachineTypeOK
<1> QED
  BY <1>1, <1>2, <1>3 DEF TriggerNmi, MachineTypeOK, Kept

-----------------------------------------------------------------------------
(* Any program, in any use that is made of the CPU: it is built on any bus, *)
(* and then clocked and interrupted at any moment; between two calls the    *)
(* main loop may render a frame, which sets the vblank bit and polls the    *)
(* keys (cpu.cpp:71), and a test or the debugger write a byte or set a      *)
(* register.  A CPU without a PPU never looks at the bit.                   *)
PoweredOn == todo = 0 /\ \E bus : BusTypeOK(bus) /\ ~bus.thrown /\ cpu = PowerOn(bus)

Rendered ==
    \E held \in SUBSET Button :
        /\ cpu' = [cpu EXCEPT !.bus.ppu = SetVblank(@), !.bus.keys = held]
        /\ UNCHANGED todo

Written ==
    \E a \in Words, v \in Byte :
        /\ cpu' = [cpu EXCEPT !.bus = Write(@, a, v).bus]
        /\ ~cpu'.bus.thrown
        /\ UNCHANGED todo

RegisterSet ==
    \E reg \in {"pc", "sp", "a", "x", "y", "p"}, v \in Words :
        cpu' = WithRegister(reg, v) /\ UNCHANGED todo

Used == Cycle \/ TriggerNmi \/ Rendered \/ Written \/ RegisterSet

AnyProgram == PoweredOn /\ [][Used]_machineVars

LEMMA PoweredOnTyped ==
    ASSUME NEW b, BusTypeOK(b), ~b.thrown
    PROVE  StateTypeOK(PowerOn(b)) /\ ~PowerOn(b).bus.thrown /\ PowerOn(b).bus.cart = b.cart
<1> DEFINE r == Read16(b, \hFFFC)
<1>1. \hFFFC \in Words /\ ~Faults(b, \hFFFC) /\ ~Faults(b, Word(\hFFFC + 1))
  BY WordIs DEF Faults, Word
<1>2. r.v \in Words /\ OnlyRead(b, r.bus) /\ ~r.bus.thrown
  BY <1>1, Read16Typed
<1>3. \hFD \in Byte /\ 0 \in Byte /\ Flags(\h34) \in SUBSET Flag
  BY ByteIs DEF Flags
<1>4. BusTypeOK(r.bus) /\ r.bus.cart = b.cart
  BY <1>2 DEF OnlyRead, Follows
<1>5. PowerOn(b) = [pc |-> r.v, sp |-> \hFD, a |-> 0, x |-> 0, y |-> 0, p |-> Flags(\h34),
                    bus |-> r.bus]
  BY DEF PowerOn
<1> DEFINE sp == \hFD
           p  == Flags(\h34)
           z  == 0
<1>6. sp \in Byte /\ p \in SUBSET Flag /\ z \in Byte
  BY <1>3
<1>7. PowerOn(b) = [pc |-> r.v, sp |-> sp, a |-> z, x |-> z, y |-> z, p |-> p, bus |-> r.bus]
  BY <1>5
<1> HIDE DEF r, sp, p, z
<1> QED
  BY <1>2, <1>4, <1>6, <1>7 DEF StateTypeOK

LEMMA RenderedTyped ==
    ASSUME MachineTypeOK, Rendered
    PROVE  MachineTypeOK'
<1>1. PICK held \in SUBSET Button :
          /\ cpu' = [cpu EXCEPT !.bus.ppu = SetVblank(@), !.bus.keys = held]
          /\ UNCHANGED todo
  BY Zenon DEF Rendered
<1> DEFINE b == cpu.bus
           u == SetVblank(b.ppu)
           c == [b EXCEPT !.ppu = u, !.keys = held]
<1>2. StateTypeOK(cpu) /\ BusTypeOK(b) /\ ~b.thrown
  BY <1>1, StateParts DEF MachineTypeOK
<1>3. ASSUME PpuTypeOK(b.ppu)
      PROVE  PpuTypeOK(u)
  <2> DEFINE w == 128 + (b.ppu.status % 128)
  <2>1. b.ppu.status \in Byte
    BY <1>3 DEF PpuTypeOK
  <2>2. w \in Byte
    BY <2>1, ByteIs
  <2>3. SetVblank(b.ppu) = [b.ppu EXCEPT !.status = w]
    BY <1>3 DEF SetVblank, PpuTypeOK
  <2> HIDE DEF w
  <2>4. PpuTypeOK([b.ppu EXCEPT !.status = w])
    BY <1>3, <2>2 DEF PpuTypeOK
  <2> QED
    BY <2>3, <2>4
<1>4. cpu' = [cpu EXCEPT !.bus = c]
  <2>1. "bus" \in DOMAIN cpu /\ "ppu" \in DOMAIN b /\ "keys" \in DOMAIN b
    BY <1>2 DEF StateTypeOK, BusTypeOK
  <2> QED
    BY <1>1, <2>1
<1> HIDE DEF u
<1>5. BusTypeOK(c) /\ ~c.thrown
  <2> DEFINE d == [b EXCEPT !.ppu = u]
  <2>1. BusTypeOK(d) /\ d.thrown = b.thrown
    <3>1. CASE "ppu" \in b.attached
      BY <1>2, <1>3, <3>1, BusWithPpu DEF BusTypeOK
    <3>2. CASE "ppu" \notin b.attached
      BY <1>2, <3>2 DEF BusTypeOK
    <3> QED
      BY <3>1, <3>2
  <2>2. c = [d EXCEPT !.keys = held]
    OBVIOUS
  <2> HIDE DEF d
  <2>3. BusTypeOK([d EXCEPT !.keys = held]) /\ [d EXCEPT !.keys = held].thrown = d.thrown
    BY <2>1 DEF BusTypeOK
  <2> QED
    BY <1>2, <2>1, <2>2, <2>3
<1> HIDE DEF c
<1>6. StateTypeOK(cpu') /\ cpu'.bus = c
  BY <1>2, <1>4, <1>5, StateWith
<1> QED
  BY <1>1, <1>5, <1>6 DEF MachineTypeOK

LEMMA WrittenTyped ==
    ASSUME MachineTypeOK, Written
    PROVE  MachineTypeOK'
<1>1. PICK a \in Words, v \in Byte :
          /\ cpu' = [cpu EXCEPT !.bus = Write(@, a, v).bus]
          /\ ~cpu'.bus.thrown
          /\ UNCHANGED todo
  BY DEF Written
<1> DEFINE c == Write(cpu.bus, a, v).bus
<1>2. StateTypeOK(cpu) /\ BusTypeOK(cpu.bus)
  BY StateParts DEF MachineTypeOK
<1>3. BusTypeOK(c) /\ cpu' = [cpu EXCEPT !.bus = c]
  BY <1>1, <1>2, WriteTyped DEF Follows, StateTypeOK
<1> HIDE DEF c
<1>4. StateTypeOK(cpu')
  BY <1>2, <1>3, StateWith
<1> QED
  BY <1>1, <1>4 DEF MachineTypeOK

LEMMA WithRegisterTyped ==
    ASSUME StateTypeOK(cpu), NEW reg \in {"pc", "sp", "a", "x", "y", "p"}, NEW v \in Words
    PROVE  StateTypeOK(WithRegister(reg, v)) /\ WithRegister(reg, v).bus = cpu.bus
<1>1. v % 256 \in Byte /\ Flags(v % 256) \in SUBSET Flag
  BY WordIs, Remainders DEF Flags
<1> DEFINE n == v % 256
<1>2. n \in Byte /\ Flags(n) \in SUBSET Flag
  BY <1>1
<1>3. /\ reg = "pc" => WithRegister(reg, v) = [cpu EXCEPT !.pc = v]
      /\ reg = "p" => WithRegister(reg, v) = [cpu EXCEPT !.p = Flags(n)]
      /\ reg = "sp" => WithRegister(reg, v) = [cpu EXCEPT !.sp = n]
      /\ reg = "a" => WithRegister(reg, v) = [cpu EXCEPT !.a = n]
      /\ reg = "x" => WithRegister(reg, v) = [cpu EXCEPT !.x = n]
      /\ reg = "y" => WithRegister(reg, v) = [cpu EXCEPT !.y = n]
  <2> DEFINE w == CASE reg = "pc" -> v [] reg = "p" -> Flags(n) [] OTHER -> n
  <2>1. WithRegister(reg, v) = [cpu EXCEPT ![reg] = w]
    BY DEF WithRegister
  <2> HIDE DEF n
  <2>2. /\ reg = "pc" => w = v
        /\ reg = "p" => w = Flags(n)
        /\ reg \notin {"pc", "p"} => w = n
    OBVIOUS
  <2> HIDE DEF w
  <2>3. reg = "pc" => WithRegister(reg, v) = [cpu EXCEPT !.pc = v]
    BY <2>1, <2>2
  <2>4. reg = "p" => WithRegister(reg, v) = [cpu EXCEPT !.p = Flags(n)]
    BY <2>1, <2>2
  <2>5. reg = "sp" => WithRegister(reg, v) = [cpu EXCEPT !.sp = n]
    BY <2>1, <2>2
  <2>6. reg = "a" => WithRegister(reg, v) = [cpu EXCEPT !.a = n]
    BY <2>1, <2>2
  <2>7. reg = "x" => WithRegister(reg, v) = [cpu EXCEPT !.x = n]
    BY <2>1, <2>2
  <2>8. reg = "y" => WithRegister(reg, v) = [cpu EXCEPT !.y = n]
    BY <2>1, <2>2
  <2> QED
    BY <2>3, <2>4, <2>5, <2>6, <2>7, <2>8
<1> DEFINE f == Flags(n)
           OK(t) == StateTypeOK(t) /\ t.bus = cpu.bus
<1>4. f \in SUBSET Flag
  BY <1>2
<1> HIDE DEF n, f
<1>5. OK([cpu EXCEPT !.pc = v]) /\ OK([cpu EXCEPT !.p = f])
  BY <1>4, StateWith
<1>6. OK([cpu EXCEPT !.sp = n]) /\ OK([cpu EXCEPT !.a = n])
  BY <1>2, StateWith
<1>7. OK([cpu EXCEPT !.x = n]) /\ OK([cpu EXCEPT !.y = n])
  BY <1>2, StateWith
<1>8. OK(WithRegister(reg, v))
  <2> HIDE DEF OK
  <2> QED
    BY <1>3, <1>5, <1>6, <1>7 DEF f
<1> QED
  BY <1>8

(* Whatever the program, the registers, the memories, the PPU's and the     *)
(* controller's registers hold bytes and words, no instruction lasts more   *)
(* than eight cycles, and no exception is under way between two calls       *)
(* (cpu.hpp:90, alu.cpp:464-511).                                           *)
THEOREM MachineAlwaysTyped == AnyProgram => []MachineTypeOK
<1>1. PoweredOn => MachineTypeOK
  BY PoweredOnTyped DEF PoweredOn, MachineTypeOK
<1>2. MachineTypeOK /\ [Used]_machineVars => MachineTypeOK'
  <2> SUFFICES ASSUME MachineTypeOK, [Used]_machineVars
               PROVE  MachineTypeOK'
    OBVIOUS
  <2>1. CASE RegisterSet
    BY <2>1, WithRegisterTyped DEF RegisterSet, MachineTypeOK
  <2>2. CASE UNCHANGED machineVars
    BY <2>2 DEF machineVars, MachineTypeOK
  <2> QED
    BY <2>1, <2>2, CycleTyped, TriggerNmiTyped, RenderedTyped, WrittenTyped DEF Used, CycleOK
<1> QED
  BY <1>1, <1>2, PTL DEF AnyProgram

(* A cycle that throws, because Mapper0 does, leaves registers and RAM as   *)
(* they were, although nothing undoes what an instruction did before the    *)
(* access that throws: JSR pushes before it reads its operand, but is not   *)
(* decoded where that read would throw; the shifts set flags before they    *)
(* write, but have read the same byte first (alu.cpp:494, alu.cpp:632,      *)
(* decoder.cpp:460, cartridge.cpp:29).                                      *)
THEOREM ExceptionsAlwaysClean == AnyProgram => ExceptionIsClean
<1>1. MachineTypeOK /\ [Used]_machineVars =>
          [Cycle /\ todo' = todo =>
              cpu'.bus.ram = cpu.bus.ram /\ [cpu' EXCEPT !.bus = cpu.bus] = cpu]_machineVars
  BY CycleTyped DEF CycleOK, NothingHalfDone
<1> QED
  BY <1>1, MachineAlwaysTyped, PTL DEF AnyProgram, ExceptionIsClean

-----------------------------------------------------------------------------
(* What was pushed is what is pulled, to the byte                           *)

\* Byte n of page 1.
OnPage(b, n) == Peek(b.ram, 256 + n)

(* A read of RAM yields its byte and changes nothing; a write changes one.  *)
LEMMA RamRead ==
    ASSUME NEW b, ~b.thrown, NEW a \in Int, 0 <= a, a < 512
    PROVE  Read(b, a) = [v |-> Peek(b.ram, a), bus |-> b]
<1>1. a < \h2000 /\ a % \h800 = a
  OBVIOUS
<1> QED
  BY <1>1 DEF Read, ReadLive, Between

OneByteNew(b, c, a, v) ==
    /\ BusTypeOK(c) /\ ~c.thrown
    /\ Peek(c.ram, a) = v
    /\ \A d : d # a => Peek(c.ram, d) = Peek(b.ram, d)

LEMMA RamWrite ==
    ASSUME NEW b, BusTypeOK(b), ~b.thrown, NEW a \in Int, 0 <= a, a < 512, NEW v \in Byte
    PROVE  Write(b, a, v).ok /\ OneByteNew(b, Write(b, a, v).bus, a, v)
<1>1. a \in Words /\ a < \h2000 /\ a % \h800 = a /\ ~Faults(b, a)
  BY WordIs DEF Faults
<1>2. Write(b, a, v).ok
  BY <1>1 DEF Write, WriteLive, Between
<1>3. Write(b, a, v).bus.ram = Poke(b.ram, a, v)
  BY <1>1, WriteTyped
<1>4. BusTypeOK(Write(b, a, v).bus) /\ ~Write(b, a, v).bus.thrown
  BY <1>1, WriteTyped DEF Follows
<1>5. SparseTypeOK(b.ram, 2048) /\ a \in Nat /\ a < 2048
  BY DEF BusTypeOK
<1> QED
  BY <1>2, <1>3, <1>4, <1>5, PokeTyped DEF OneByteNew

LEMMA StoredOnPage ==
    ASSUME NEW b, NEW c, NEW a, NEW v, NEW n, OneByteNew(b, c, a, v)
    PROVE  OnPage(c, n) = IF 256 + n = a THEN v ELSE OnPage(b, n)
<1> DEFINE d == 256 + n
<1>1. OnPage(c, n) = Peek(c.ram, d) /\ OnPage(b, n) = Peek(b.ram, d)
  BY DEF OnPage
<1> HIDE DEF d
<1>2. OnPage(c, n) = IF d = a THEN v ELSE OnPage(b, n)
  BY <1>1 DEF OneByteNew
<1> QED
  BY <1>2 DEF d

\* t is s after a byte was pushed, after a word was: the rest of the page is as
\* it was.
ByteOn(s, t, v) ==
    /\ StateTypeOK(t) /\ ~t.bus.thrown
    /\ t.sp = (s.sp - 1) % 256
    /\ \A n \in Byte : OnPage(t.bus, n) = IF n = s.sp THEN v ELSE OnPage(s.bus, n)

WordOn(s, t, w) ==
    /\ StateTypeOK(t) /\ ~t.bus.thrown
    /\ t.sp = (s.sp - 2) % 256
    /\ \A n \in Byte : OnPage(t.bus, n) =
         IF n = s.sp THEN w \div 256 ELSE IF n = s.sp - 1 THEN w % 256 ELSE OnPage(s.bus, n)

LEMMA PushByteStores ==
    ASSUME NEW s, StateTypeOK(s), ~s.bus.thrown, NEW v \in Byte
    PROVE  ByteOn(s, PushByte(s, v), v)
<1> DEFINE t == PushByte(s, v)
           at == 256 + s.sp
           r == Write(s.bus, at, v)
<1>1. /\ s.sp \in Int /\ 0 <= s.sp /\ s.sp < 256 /\ BusTypeOK(s.bus)
      /\ at \in Int /\ 0 <= at /\ at < 512
  BY StateParts, ByteIs
<1>2. StateTypeOK(t) /\ ~t.bus.thrown
  BY PushByteTyped DEF Kept
<1>4. t.bus = r.bus /\ t.sp = (s.sp - 1) % 256
  <2> DEFINE q == WithBus(s, r.bus)
  <2>1. r.bus.thrown <=> s.bus.thrown
    BY <1>1, WriteTyped, WordIs DEF Faults
  <2>2. BusTypeOK(r.bus)
    BY <1>1, WriteTyped, WordIs DEF Follows
  <2>3. t = GoingOn(q, [q EXCEPT !.sp = (q.sp - 1) % 256])
    BY DEF PushByte
  <2> HIDE DEF r, t
  <2>4. StateTypeOK(q) /\ q.bus = r.bus /\ q.sp = s.sp
    BY <2>2, WithBusTyped
  <2> HIDE DEF q
  <2>5. t = [q EXCEPT !.sp = (q.sp - 1) % 256]
    BY <2>1, <2>3, <2>4, GoesOn
  <2> QED
    BY <2>4, <2>5 DEF StateTypeOK
<1>5. \A n \in Byte : 256 + n = at <=> n = s.sp
  BY <1>1, ByteIs
<1> HIDE DEF t, at
<1>3. OneByteNew(s.bus, r.bus, at, v)
  BY <1>1, RamWrite
<1> HIDE DEF r
<1>6. ASSUME NEW n \in Byte
      PROVE  OnPage(t.bus, n) = IF n = s.sp THEN v ELSE OnPage(s.bus, n)
  <2>1. OneByteNew(s.bus, t.bus, at, v)
    BY <1>3, <1>4
  <2>2. OnPage(t.bus, n) = IF 256 + n = at THEN v ELSE OnPage(s.bus, n)
    BY <2>1, StoredOnPage
  <2> QED
    BY <1>5, <2>2, Zenon
<1> QED
  BY <1>2, <1>4, <1>6 DEF ByteOn, t

LEMMA PushWordStores ==
    ASSUME NEW s, StateTypeOK(s), ~s.bus.thrown, s.sp # 0, NEW w \in Words
    PROVE  WordOn(s, PushWord(s, w), w)
<1> DEFINE t   == PushWord(s, w)
           lo  == 255 + s.sp
           hi  == 256 + s.sp
           one == Write(s.bus, lo, w % 256)
           two == Write(one.bus, hi, w \div 256)
<1>1. s.sp \in Int /\ 1 <= s.sp /\ s.sp < 256 /\ BusTypeOK(s.bus)
  BY StateParts, ByteIs
<1>2. StateTypeOK(t) /\ ~t.bus.thrown
  BY PushWordTyped DEF Kept
<1>3. /\ lo \in Int /\ 0 <= lo /\ lo < 512 /\ hi \in Int /\ 0 <= hi /\ hi < 512
      /\ StackWord(s.sp) = lo /\ Word(lo + 1) = hi
      /\ w % 256 \in Byte /\ w \div 256 \in Byte
  BY <1>1, WordIs, ByteIs, Remainders DEF StackWord, Word
<1>4. t.bus = Write16(s.bus, StackWord(s.sp), w).bus /\ t.sp = (s.sp - 2) % 256
  <2> DEFINE r == Write16(s.bus, StackWord(s.sp), w)
             q == WithBus(s, r.bus)
  <2>1. Follows(s.bus, r.bus) /\ (r.bus.thrown <=> s.bus.thrown)
    <3>1. StackWord(s.sp) \in Words /\ ~Faults(s.bus, StackWord(s.sp))
      BY <1>3, WordIs DEF Faults
    <3> QED
      BY <1>1, <1>3, <3>1, Write16Typed
  <2>2. t = GoingOn(q, [q EXCEPT !.sp = (q.sp - 2) % 256])
    BY DEF PushWord
  <2> HIDE DEF r, t
  <2>3. StateTypeOK(q) /\ q.bus = r.bus /\ q.sp = s.sp
    BY <2>1, WithBusTyped DEF Follows
  <2> HIDE DEF q
  <2>4. t = [q EXCEPT !.sp = (q.sp - 2) % 256]
    BY <2>1, <2>2, <2>3, GoesOn
  <2> QED
    BY <2>3, <2>4 DEF StateTypeOK, r
<1>5. \A n \in Byte : (256 + n = hi <=> n = s.sp) /\ (256 + n = lo <=> n = s.sp - 1)
  BY <1>1, ByteIs
<1> HIDE DEF t, lo, hi
<1>6. one.ok /\ OneByteNew(s.bus, one.bus, lo, w % 256)
  BY <1>1, <1>3, RamWrite
<1>7. Write16(s.bus, StackWord(s.sp), w) = two
  BY <1>3, <1>6 DEF Write16, WriteHighToo
<1> HIDE DEF one
<1>8. OneByteNew(one.bus, two.bus, hi, w \div 256)
  <2>1. BusTypeOK(one.bus) /\ ~one.bus.thrown
    BY <1>6 DEF OneByteNew
  <2> QED
    BY <1>3, <2>1, RamWrite
<1> HIDE DEF two
<1>9. ASSUME NEW n \in Byte
      PROVE  OnPage(t.bus, n) = IF n = s.sp THEN w \div 256 ELSE IF n = s.sp - 1 THEN w % 256 ELSE OnPage(s.bus, n)
  <2>2. OnPage(one.bus, n) = IF n = s.sp - 1 THEN w % 256 ELSE OnPage(s.bus, n)
    <3>1. OnPage(one.bus, n) = IF 256 + n = lo THEN w % 256 ELSE OnPage(s.bus, n)
      BY <1>6, StoredOnPage
    <3> QED
      BY <1>5, <3>1, Zenon
  <2>3. OnPage(t.bus, n) = IF n = s.sp THEN w \div 256 ELSE OnPage(one.bus, n)
    <3>1. OneByteNew(one.bus, t.bus, hi, w \div 256)
      BY <1>4, <1>7, <1>8
    <3>2. OnPage(t.bus, n) = IF 256 + n = hi THEN w \div 256 ELSE OnPage(one.bus, n)
      BY <3>1, StoredOnPage
    <3> QED
      BY <1>5, <3>2, Zenon
  <2> QED
    BY <2>2, <2>3
<1> QED
  BY <1>2, <1>4, <1>9 DEF WordOn, t

\* The CPU with another stack pointer, and going on with other flags elsewhere.
WithSp(s, sp) == [s EXCEPT !.sp = sp]
Resumed(s, p, pc) == [s EXCEPT !.p = p, !.pc = pc]

LEMMA PullByteYields ==
    ASSUME NEW u, StateTypeOK(u), ~u.bus.thrown
    PROVE  /\ PullByte(u).v = OnPage(u.bus, (u.sp + 1) % 256)
           /\ PullByte(u).s = WithSp(u, (u.sp + 1) % 256)
<1> DEFINE sp == (u.sp + 1) % 256
           r  == Read(u.bus, 256 + sp)
<1>1. sp \in Int /\ 256 + sp \in Int /\ 0 <= 256 + sp /\ 256 + sp < 512
  BY StateParts, ByteIs
<1>2. PullByte(u).v = r.v /\ PullByte(u).s = [u EXCEPT !.sp = sp, !.bus = r.bus]
  BY DEF PullByte
<1> HIDE DEF sp
<1>3. r.v = OnPage(u.bus, sp) /\ r.bus = u.bus
  BY <1>1, RamRead DEF OnPage
<1> HIDE DEF r
<1>4. [u EXCEPT !.sp = sp, !.bus = u.bus] = [u EXCEPT !.sp = sp]
  BY DEF StateTypeOK
<1>5. PullByte(u).s = [u EXCEPT !.sp = sp]
  BY <1>2, <1>3, <1>4, Zenon
<1>6. PullByte(u).s = WithSp(u, sp)
  BY <1>5 DEF WithSp
<1> QED
  BY <1>2, <1>3, <1>6 DEF sp

LEMMA PullWordYields ==
    ASSUME NEW u, StateTypeOK(u), ~u.bus.thrown, NEW sp, sp = (u.sp + 2) % 256, sp # 0
    PROVE  /\ PullWord(u).v = OnPage(u.bus, sp - 1) + 256 * OnPage(u.bus, sp)
           /\ PullWord(u).s = WithSp(u, sp)
<1> DEFINE at == 256 + (sp - 1)
           r  == Read16(u.bus, at)
           lo == Read(u.bus, at)
           hi == Read(u.bus, 256 + sp)
<1>1. sp \in Int /\ 1 <= sp /\ sp < 256
  BY StateParts, ByteIs
<1>2. /\ StackWord(sp) = at /\ Word(at + 1) = 256 + sp /\ at \in Int /\ 0 <= at /\ at < 512
      /\ 256 + sp \in Int /\ 0 <= 256 + sp /\ 256 + sp < 512
  BY <1>1 DEF StackWord, Word
<1>3. PullWord(u).v = r.v /\ PullWord(u).s = [u EXCEPT !.sp = sp, !.bus = r.bus]
  <2> DEFINE to == (u.sp + 2) % 256
             q  == Read16(u.bus, StackWord(to))
  <2>1. PullWord(u).v = q.v /\ PullWord(u).s = [u EXCEPT !.sp = to, !.bus = q.bus]
    BY DEF PullWord
  <2>2. q = r /\ to = sp
    BY <1>2
  <2> HIDE DEF q, r, to
  <2> QED
    BY <2>1, <2>2, Zenon
<1>4. lo.v = OnPage(u.bus, sp - 1) /\ lo.bus = u.bus /\ hi.v = OnPage(u.bus, sp) /\ hi.bus = u.bus
  <2>1. Read(u.bus, at) = [v |-> OnPage(u.bus, sp - 1), bus |-> u.bus]
    BY <1>2, RamRead DEF OnPage
  <2>2. Read(u.bus, 256 + sp) = [v |-> OnPage(u.bus, sp), bus |-> u.bus]
    BY <1>2, RamRead DEF OnPage
  <2> QED
    BY <2>1, <2>2
<1>5. r.v = OnPage(u.bus, sp - 1) + 256 * OnPage(u.bus, sp) /\ r.bus = u.bus
  <2>1. r.v = lo.v + 256 * Read(lo.bus, Word(at + 1)).v /\ r.bus = Read(lo.bus, Word(at + 1)).bus
    BY DEF Read16, ReadHighToo, HighByteToo
  <2> HIDE DEF r, lo, at
  <2>2. Read(lo.bus, Word(at + 1)) = hi
    BY <1>2, <1>4, Zenon
  <2> QED
    BY <1>4, <2>1, <2>2
<1>6. [u EXCEPT !.sp = sp, !.bus = u.bus] = [u EXCEPT !.sp = sp]
  BY DEF StateTypeOK
<1> HIDE DEF r
<1>7. PullWord(u).s = [u EXCEPT !.sp = sp]
  BY <1>3, <1>5, <1>6, Zenon
<1>8. PullWord(u).s = WithSp(u, sp)
  BY <1>7 DEF WithSp
<1> QED
  BY <1>3, <1>5, <1>8

LEMMA SpReplaced ==
    ASSUME NEW u, StateTypeOK(u), NEW v \in Byte, NEW w
    PROVE  /\ StateTypeOK(WithSp(u, v)) /\ WithSp(u, v).bus = u.bus /\ WithSp(u, v).sp = v
           /\ WithSp(WithSp(u, v), w) = WithSp(u, w)
<1>1. StateTypeOK(WithSp(u, v)) /\ WithSp(u, v).bus = u.bus
  BY StateWith DEF WithSp
<1>2. WithSp(u, v).sp = v /\ WithSp(WithSp(u, v), w) = WithSp(u, w)
  BY DEF StateTypeOK, WithSp
<1> QED
  BY <1>1, <1>2

WithFlags(s, p) == [s EXCEPT !.p = p]

LEMMA FlagsReplaced ==
    ASSUME NEW u, StateTypeOK(u), NEW p \in SUBSET Flag
    PROVE  /\ StateTypeOK(WithFlags(u, p)) /\ WithFlags(u, p).bus = u.bus
           /\ WithFlags(u, p).sp = u.sp
<1>1. StateTypeOK(WithFlags(u, p)) /\ WithFlags(u, p).bus = u.bus
  BY StateWith DEF WithFlags
<1>2. WithFlags(u, p).sp = u.sp
  BY DEF StateTypeOK, WithFlags
<1> QED
  BY <1>1, <1>2

LEMMA SpThenFlags ==
    ASSUME NEW u, StateTypeOK(u), NEW v, NEW w, NEW p, NEW pc
    PROVE  [WithSp(WithFlags(WithSp(u, v), p), w) EXCEPT !.pc = pc] = Resumed(WithSp(u, w), p, pc)
  BY DEF StateTypeOK, WithSp, WithFlags, Resumed

LEMMA WordFromBytes ==
    ASSUME NEW w \in Words
    PROVE  (w % 256) + 256 * (w \div 256) = w
  BY WordIs

(* The NMI, and BRK: wherever SP_ points but at 0, where the address falls  *)
(* out of the page, the three bytes pushed are the only ones on the page to *)
(* change, and an RTI that finds them again, with SP_ where they left it,   *)
(* restores PC, all eight flags and the stack pointer and changes nothing   *)
(* else (alu.cpp:508, decoder.cpp:196, decoder.cpp:793).                    *)
THEOREM InterruptsComeBack ==
    ASSUME NEW s, StateTypeOK(s), ~s.bus.thrown, s.sp # 0,
           NEW pc \in Words, NEW vector \in {\hFFFA, \hFFFE},
           NEW u, StateTypeOK(u), ~u.bus.thrown,
           u.sp = Interrupted(s, pc, vector).sp,
           \A n \in {s.sp, s.sp - 1, (s.sp - 2) % 256} :
              OnPage(u.bus, n) = OnPage(Interrupted(s, pc, vector).bus, n)
    PROVE  /\ \A n \in Byte \ {s.sp, s.sp - 1, (s.sp - 2) % 256} :
                OnPage(Interrupted(s, pc, vector).bus, n) = OnPage(s.bus, n)
           /\ ReturnedFromInterrupt(u) = Resumed(WithSp(u, s.sp), s.p, pc)
<1> DEFINE q    == PushWord(s, pc)
           byte == StatusByte(s.p)
           t    == PushByte(q, byte)
           i    == Interrupted(s, pc, vector)
           low  == (s.sp - 2) % 256
<1>1. /\ s.sp \in Int /\ 1 <= s.sp /\ s.sp < 256
      /\ {s.sp, s.sp - 1, low} \subseteq Byte /\ low # s.sp /\ low # s.sp - 1
      /\ (low - 1) % 256 = (s.sp - 3) % 256 /\ (((s.sp - 3) % 256) + 1) % 256 = low /\ (low + 2) % 256 = s.sp
  BY StateParts, ByteIs
<1>2. byte \in Byte /\ Flags(byte) = s.p
  BY StateParts, StatusSurvivesStack
<1> HIDE DEF byte
<1>3. WordOn(s, q, pc) /\ StateTypeOK(q) /\ ~q.bus.thrown /\ q.sp = low
  BY PushWordStores DEF WordOn
<1> HIDE DEF q, low
<1>4. ByteOn(q, t, byte) /\ StateTypeOK(t) /\ t.sp = (s.sp - 3) % 256
  <2>1. ByteOn(q, t, byte)
    BY <1>2, <1>3, PushByteStores
  <2> QED
    BY <1>1, <1>3, <2>1 DEF ByteOn
<1>5. i = Jumped(t, Read16(t.bus, vector))
  BY DEF Interrupted, q, byte
<1> HIDE DEF t
<1>6. i.bus.ram = t.bus.ram /\ i.sp = t.sp
  <2> DEFINE at == Read16(t.bus, vector)
  <2>1. vector \in Words /\ BusTypeOK(t.bus)
    BY <1>4, StateParts, WordIs
  <2>2. at.bus.ram = t.bus.ram
    BY <2>1, Read16Typed DEF OnlyRead
  <2> HIDE DEF at
  <2>3. Jumped(t, at).bus = at.bus /\ Jumped(t, at).sp = t.sp
    BY <1>4 DEF Jumped, GoingOn, WithBus, StateTypeOK
  <2> QED
    BY <1>5, <2>2, <2>3 DEF at
<1> HIDE DEF i
<1>7. \A n : OnPage(i.bus, n) = OnPage(t.bus, n)
  BY <1>6 DEF OnPage
<1>8. /\ OnPage(i.bus, low) = byte
      /\ OnPage(i.bus, s.sp - 1) = pc % 256
      /\ OnPage(i.bus, s.sp) = pc \div 256
      /\ \A n \in Byte \ {s.sp, s.sp - 1, low} : OnPage(i.bus, n) = OnPage(s.bus, n)
  BY <1>1, <1>3, <1>4, <1>7 DEF ByteOn, WordOn
<1>9. ReturnedFromInterrupt(u) = Resumed(WithSp(u, s.sp), s.p, pc)
  <2> DEFINE b == PullByte(u)
             q0 == WithFlags(b.s, s.p)
             w == PullWord(q0)
  <2>1. u.sp = (s.sp - 3) % 256 /\ OnPage(u.bus, low) = byte
        /\ OnPage(u.bus, s.sp - 1) = pc % 256 /\ OnPage(u.bus, s.sp) = pc \div 256
    BY <1>4, <1>6, <1>8 DEF i, low
  <2>2. b.v = byte /\ b.s = WithSp(u, low)
    BY <1>1, <2>1, PullByteYields
  <2>3. StateTypeOK(b.s) /\ b.s.bus = u.bus /\ b.s.sp = low
    BY <1>1, <2>2, SpReplaced
  <2>4. ReturnedFromInterrupt(u) = ReturnedWith(q0)
    <3>1. ReturnedFromInterrupt(u) = GoingOn(b.s, ReturnedWith(WithFlags(b.s, Flags(b.v))))
      BY DEF ReturnedFromInterrupt, WithFlags
    <3> QED
      BY <1>2, <2>2, <2>3, <3>1, GoesOn
  <2> HIDE DEF b
  <2>5. StateTypeOK(q0) /\ q0.bus = u.bus /\ q0.sp = low
    <3>1. s.p \in SUBSET Flag
      BY StateParts
    <3> QED
      BY <2>3, <3>1, FlagsReplaced
  <2>6. ReturnedWith(q0) = GoingOn(w.s, [w.s EXCEPT !.pc = w.v])
    BY DEF ReturnedWith
  <2> HIDE DEF q0
  <2>7. w.v = OnPage(u.bus, s.sp - 1) + 256 * OnPage(u.bus, s.sp) /\ w.s = WithSp(q0, s.sp)
    BY <1>1, <2>5, PullWordYields
  <2> HIDE DEF w
  <2>8. w.v = pc
    BY <2>1, <2>7, WordFromBytes
  <2>9. w.s.bus = u.bus
    BY <1>1, <2>5, <2>7, SpReplaced
  <2>10. ReturnedFromInterrupt(u) = [w.s EXCEPT !.pc = pc]
    BY <2>4, <2>6, <2>8, <2>9, GoesOn
  <2>11. [w.s EXCEPT !.pc = pc] = Resumed(WithSp(u, s.sp), s.p, pc)
    BY <2>2, <2>7, SpThenFlags DEF q0
  <2> QED
    BY <2>10, <2>11
<1> QED
  BY <1>8, <1>9 DEF i, low

(* A subroutine that leaves the two bytes of its return address alone, and  *)
(* SP_ where it found it, returns to the instruction after its JSR, also    *)
(* where SP_ wrapped around (decoder.cpp:462, decoder.cpp:801).             *)
THEOREM CallsComeBack ==
    ASSUME NEW s, StateTypeOK(s), ~s.bus.thrown, s.sp # 0,
           NEW u, StateTypeOK(u), ~u.bus.thrown,
           u.sp = Called(s).sp,
           \A n \in {s.sp, s.sp - 1} : OnPage(u.bus, n) = OnPage(Called(s).bus, n)
    PROVE  /\ \A n \in Byte \ {s.sp, s.sp - 1} : OnPage(Called(s).bus, n) = OnPage(s.bus, n)
           /\ Returned(u) = [WithSp(u, s.sp) EXCEPT !.pc = Word(s.pc + 3)]
<1> DEFINE pc == Word(s.pc + 2)
           t  == PushWord(s, pc)
           at == AddrFetch(t, "ABS")
           c  == Called(s)
<1>1. /\ s.sp \in Int /\ 1 <= s.sp /\ s.sp < 256
      /\ {s.sp, s.sp - 1} \subseteq Byte
      /\ (((s.sp - 2) % 256) + 2) % 256 = s.sp
  BY StateParts, ByteIs
<1>2. pc \in Words /\ Word(pc + 1) = Word(s.pc + 3)
  BY StateParts, WordIs, Remainders DEF Word
<1> HIDE DEF pc
<1>3. WordOn(s, t, pc) /\ StateTypeOK(t) /\ t.sp = (s.sp - 2) % 256
  BY <1>2, PushWordStores DEF WordOn
<1>4. c = Jumped(t, at)
  BY DEF Called, pc
<1> HIDE DEF t
<1>5. c.bus.ram = t.bus.ram /\ c.sp = t.sp
  <2>1. at.bus.ram = t.bus.ram
    BY <1>3, AddrFetchTyped DEF FetchOK, OnlyRead, WordModes
  <2> HIDE DEF at
  <2>2. Jumped(t, at).bus = at.bus /\ Jumped(t, at).sp = t.sp
    BY <1>3 DEF Jumped, GoingOn, WithBus, StateTypeOK
  <2> QED
    BY <1>4, <2>1, <2>2
<1> HIDE DEF c
<1>6. \A n : OnPage(c.bus, n) = OnPage(t.bus, n)
  BY <1>5 DEF OnPage
<1>7. /\ OnPage(c.bus, s.sp - 1) = pc % 256
      /\ OnPage(c.bus, s.sp) = pc \div 256
      /\ \A n \in Byte \ {s.sp, s.sp - 1} : OnPage(c.bus, n) = OnPage(s.bus, n)
  BY <1>1, <1>3, <1>6 DEF WordOn
<1>8. Returned(u) = [WithSp(u, s.sp) EXCEPT !.pc = Word(s.pc + 3)]
  <2> DEFINE w == PullWord(u)
  <2>1. u.sp = (s.sp - 2) % 256
        /\ OnPage(u.bus, s.sp - 1) = pc % 256 /\ OnPage(u.bus, s.sp) = pc \div 256
    BY <1>3, <1>5, <1>7 DEF c
  <2>2. w.v = OnPage(u.bus, s.sp - 1) + 256 * OnPage(u.bus, s.sp) /\ w.s = WithSp(u, s.sp)
    BY <1>1, <2>1, PullWordYields
  <2>3. Returned(u) = [w.s EXCEPT !.pc = Word(w.v + 1)]
    <3>1. Returned(u) = GoingOn(w.s, [w.s EXCEPT !.pc = Word(w.v + 1)])
      BY DEF Returned
    <3> HIDE DEF w
    <3>2. w.s.bus = u.bus
      BY <1>1, <2>2, SpReplaced
    <3> QED
      BY <3>1, <3>2, GoesOn
  <2> HIDE DEF w
  <2>4. w.v = pc
    BY <1>2, <2>1, <2>2, WordFromBytes
  <2> QED
    BY <1>2, <2>2, <2>3, <2>4, Zenon
<1> QED
  BY <1>7, <1>8 DEF c

(* A byte pushed is the byte pulled, wherever SP_ points: PLA restores the  *)
(* accumulator, and PLP all flags but Z, which it sets when no flag was set *)
(* and clears otherwise (decoder.cpp:695-715).                              *)
THEOREM BytesComeBack ==
    ASSUME NEW s, StateTypeOK(s), ~s.bus.thrown, NEW op \in {"PHA", "PHP"},
           NEW u, StateTypeOK(u), ~u.bus.thrown,
           u.sp = Pushed(s, op).sp, OnPage(u.bus, s.sp) = OnPage(Pushed(s, op).bus, s.sp)
    PROVE  /\ Pulled(u, "PLA").sp = s.sp /\ Pulled(u, "PLP").sp = s.sp
           /\ op = "PHA" => Pulled(u, "PLA").a = s.a
           /\ op = "PHP" => Pulled(u, "PLP").p = (s.p \ {"Z"}) \union (IF s.p = {} THEN {"Z"} ELSE {})
<1> DEFINE byte == IF op = "PHA" THEN s.a ELSE StatusByte(s.p)
           t == Pushed(s, op)
           b == PullByte(u)
<1>1. s.sp \in Byte /\ (((s.sp - 1) % 256) + 1) % 256 = s.sp
  BY StateParts, ByteIs
<1>2. byte \in Byte
  BY StateParts, StatusSurvivesStack
<1>3. t = PushByte(s, byte)
  BY DEF Pushed
<1> HIDE DEF byte
<1>4. OnPage(t.bus, s.sp) = byte /\ t.sp = (s.sp - 1) % 256
  <2>1. ByteOn(s, t, byte)
    BY <1>2, <1>3, PushByteStores
  <2> QED
    BY <1>1, <2>1 DEF ByteOn
<1> HIDE DEF t
<1>5. b.v = byte /\ b.s = WithSp(u, s.sp)
  BY <1>1, <1>4, PullByteYields DEF t
<1>7. StateTypeOK(b.s) /\ b.s.sp = s.sp /\ b.s.bus = u.bus
  BY <1>1, <1>5, SpReplaced
<1>6. /\ Pulled(u, "PLA") = [b.s EXCEPT !.a = b.v, !.p = WithZN(b.s.p, b.v)]
      /\ Pulled(u, "PLP") = [b.s EXCEPT !.p = WithZN(Flags(b.v), b.v)]
  BY <1>7, GoesOn DEF Pulled
<1> HIDE DEF b
<1>8. /\ Pulled(u, "PLA").sp = s.sp /\ Pulled(u, "PLP").sp = s.sp
      /\ Pulled(u, "PLA").a = byte
      /\ Pulled(u, "PLP").p = WithZN(Flags(byte), byte)
  BY <1>5, <1>6, <1>7 DEF StateTypeOK
<1>9. WithZN(s.p, StatusByte(s.p)) = (s.p \ {"Z"}) \union (IF s.p = {} THEN {"Z"} ELSE {})
  <2> DEFINE v == StatusByte(s.p)
  <2>1. v \in Byte /\ Flags(v) = s.p /\ s.p \in SUBSET Flag
    BY StateParts, StatusSurvivesStack
  <2>2. v = 0 <=> s.p = {}
    <3>1. s.p = {} => v = 0
      BY DEF StatusByte, One
    <3>2. Flags(0) = {}
      BY DEF Flags, Flag, Weight
    <3> HIDE DEF v
    <3> QED
      BY <2>1, <3>1, <3>2
  <2>3. v >= 128 <=> "N" \in s.p
    <3> HIDE DEF v
    <3>1. "N" \in s.p <=> (v \div 128) % 2 = 1
      BY <2>1 DEF Flags, Flag, Weight
    <3> QED
      BY <2>1, <3>1, ByteIs
  <2> HIDE DEF v
  <2> QED
    BY <2>1, <2>2, <2>3 DEF WithZN, With, Negative, v, Flag
<1> QED
  BY <1>8, <1>9, StateParts, StatusSurvivesStack DEF byte

-----------------------------------------------------------------------------
(* The main loop                                                            *)
LEMMA FileSizes ==
    ASSUME file \in Files
    PROVE  /\ file.prg \in Byte /\ file.prg \in Nat /\ file.prg > 0 /\ file.chr \in Nat
           /\ file.flags6 \in Nat /\ file.flags7 \in Nat /\ file.size \in Nat /\ file.magic \in BOOLEAN
           /\ \A j \in DOMAIN file.data : j \in Nat /\ file.data[j] \in Byte
           /\ Trainer \in {0, 512} /\ Trainer = IF HasTrainer THEN 512 ELSE 0
<1>1. \A v \in Byte : v \in Nat
  BY ByteIs
<1>2. {file.prg, file.chr, file.flags6, file.flags7} \subseteq Byte
  BY FilesAssumption DEF Byte
<1>3. \A j \in DOMAIN file.data : j \in Nat /\ file.data[j] \in Byte
  BY FilesAssumption DEF Byte
<1> QED
  BY <1>1, <1>2, <1>3, FilesAssumption DEF Trainer, HasTrainer

(* What the loader has got so far, before each of its reads.                *)
Begun ==
    /\ stage \in {"trainer", "prg", "chr", "mapper"} => file.magic
    /\ stage = "header" => in.good /\ in.at = 0
    /\ stage = "trainer" => HasTrainer /\ in.good /\ in.at = 16 /\ in.at <= file.size
    /\ stage = "prg" => (in.good <=> file.size >= 16 + Trainer) /\ (in.good => in.at = 16 + Trainer)
    /\ stage = "chr" => /\ in.good /\ in.at = 16 + Trainer + 16384 * file.prg
                        /\ in.at <= file.size

(* What it finds out: the file's PRG, that it is whole, that it is good.    *)
Found ==
    /\ stage \in {"chr", "mapper", "ready"} => PrgOfFile
    /\ stage = "mapper" => WholeFile
    /\ stage = "ready" => GoodFile
    /\ stage = "failed" => ~GoodFile

LoadInv ==
    /\ file \in Files
    /\ in \in [at : Nat, good : BOOLEAN]
    /\ PrgTypeOK(prg_rom)
    /\ stage \in {"header", "trainer", "prg", "chr", "mapper", "ready", "failed"}
    /\ Begun
    /\ Found

LEMMA LoadInvInitially == CartridgeInit => LoadInv
<1>1. PrgTypeOK(Blank)
  BY DEF PrgTypeOK, Blank
<1> QED
  BY <1>1 DEF CartridgeInit, LoadInv, Begun, Found

LEMMA AfterReadIs ==
    ASSUME in \in [at : Nat, good : BOOLEAN], NEW n \in Nat, in' = AfterRead(n), file.size \in Nat
    PROVE  /\ in' \in [at : Nat, good : BOOLEAN]
           /\ in'.good <=> in.good /\ in.at + n <= file.size
           /\ in'.good => in'.at = in.at + n
<1> DEFINE fits == in.good /\ in.at + n <= file.size
<1>1. in.at \in Nat /\ in.good \in BOOLEAN /\ in = [at |-> in.at, good |-> in.good]
  OBVIOUS
<1>2. CASE fits
  <2>1. in' = [at |-> in.at + n, good |-> in.good]
    BY <1>1, <1>2 DEF AfterRead
  <2> QED
    BY <1>1, <1>2, <2>1
<1>3. CASE ~fits
  <2>1. in' = [at |-> in.at, good |-> FALSE]
    BY <1>1, <1>3 DEF AfterRead
  <2> QED
    BY <1>1, <1>3, <2>1
<1> QED
  BY <1>2, <1>3

(* What a read of PRG yields, when header and trainer have been read.       *)
LEMMA AheadIsPrg ==
    ASSUME file \in Files, in.at = 16 + Trainer, prg_rom' = Ahead(file.prg * Bank), UNCHANGED file
    PROVE  PrgTypeOK(prg_rom)' /\ PrgOfFile'
<1> DEFINE n == 16384 * file.prg
           D == {j - Trainer : j \in DOMAIN file.data} \cap 0 .. (n - 1)
<1>1. /\ \A j \in DOMAIN file.data : j \in Nat /\ file.data[j] \in Byte
      /\ Trainer \in Int /\ n \in Int
  BY FileSizes
<1>2. prg_rom' = [i \in D |-> file.data[i + Trainer]]
  <2>1. in.at - HeaderSize = Trainer /\ file.prg * Bank = n
    BY <1>1, FileSizes DEF HeaderSize, Bank
  <2> HIDE DEF n
  <2> QED
    BY <2>1 DEF Ahead
<1>3. \A i \in D : i + Trainer \in DOMAIN file.data
  <2> HIDE DEF n
  <2> QED
    BY <1>1
<1>4. \A j \in DOMAIN file.data :
          j - Trainer \in 0 .. (n - 1) => j - Trainer \in D /\ (j - Trainer) + Trainer = j
  <2> HIDE DEF n
  <2> QED
    BY <1>1
<1>5. Trainer' = Trainer
  BY DEF Trainer
<1> HIDE DEF D
<1>6. PrgTypeOK(prg_rom)'
  BY <1>1, <1>2, <1>3 DEF PrgTypeOK
<1> QED
  BY <1>2, <1>3, <1>4, <1>5, <1>6 DEF PrgOfFile, n

LEMMA LoadInvKept == ASSUME LoadInv, CartridgeNext PROVE LoadInv'
<1>1. /\ file \in Files /\ in \in [at : Nat, good : BOOLEAN] /\ PrgTypeOK(prg_rom)
      /\ in.at \in Nat /\ in.good \in BOOLEAN /\ Begun /\ Found
  BY DEF LoadInv
<1>2. /\ file.prg \in Nat /\ file.prg > 0 /\ file.chr \in Nat /\ file.size \in Nat
      /\ file.flags6 \in Nat /\ file.flags7 \in Nat /\ file.magic \in BOOLEAN
      /\ Trainer \in {0, 512} /\ Trainer = IF HasTrainer THEN 512 ELSE 0
  BY <1>1, FileSizes
<1>3. UNCHANGED file
  BY DEF CartridgeNext, ReadHeader, ReadTrainer, ReadPrg, ReadChr, ChooseMapper
<1>4. Trainer' = Trainer /\ HasTrainer' = HasTrainer /\ WholeFile' = WholeFile /\ GoodFile' = GoodFile
  BY <1>3 DEF Trainer, HasTrainer, WholeFile, GoodFile
<1>5. UNCHANGED prg_rom => PrgTypeOK(prg_rom)' /\ (PrgOfFile => PrgOfFile')
  BY <1>1, <1>3, <1>4 DEF PrgTypeOK, PrgOfFile
<1>6. CASE ReadHeader
  <2>1. /\ stage = "header" /\ in' = AfterRead(16) /\ UNCHANGED prg_rom
        /\ stage' = IF ~in'.good \/ ~file.magic THEN "failed"
                    ELSE IF HasTrainer THEN "trainer" ELSE "prg"
    BY <1>6 DEF ReadHeader, HeaderSize
  <2>2. in.good /\ in.at = 0
    BY <1>1, <2>1 DEF Begun
  <2>3. /\ in' \in [at : Nat, good : BOOLEAN]
        /\ in'.good <=> 16 <= file.size
        /\ in'.good => in'.at = 16
    BY <1>1, <1>2, <2>1, <2>2, AfterReadIs
  <2>4. WholeFile => 16 <= file.size
    BY <1>2 DEF WholeFile
  <2>5. Begun' /\ Found'
    BY <1>2, <1>3, <1>4, <2>1, <2>3, <2>4 DEF Begun, Found, GoodFile
  <2> QED
    BY <1>1, <1>3, <1>5, <2>1, <2>3, <2>5 DEF LoadInv
<1>7. CASE ReadTrainer
  <2>1. stage = "trainer" /\ in' = AfterRead(512) /\ UNCHANGED prg_rom /\ stage' = "prg"
    BY <1>7 DEF ReadTrainer, TrainerSize
  <2>2. file.magic /\ HasTrainer /\ in.good /\ in.at = 16
    BY <1>1, <2>1 DEF Begun
  <2>3. /\ in' \in [at : Nat, good : BOOLEAN]
        /\ in'.good <=> 528 <= file.size
        /\ in'.good => in'.at = 528
    BY <1>1, <1>2, <2>1, <2>2, AfterReadIs
  <2>4. Begun' /\ Found'
    BY <1>2, <1>3, <1>4, <2>1, <2>2, <2>3 DEF Begun, Found
  <2> QED
    BY <1>1, <1>3, <1>5, <2>1, <2>3, <2>4 DEF LoadInv
<1>8. CASE ReadPrg
  <2> DEFINE n == 16384 * file.prg
  <2>1. n \in Nat /\ file.prg * Bank = n
    BY <1>2 DEF Bank
  <2>2. /\ stage = "prg" /\ in' = AfterRead(n)
        /\ in'.good => prg_rom' = Ahead(file.prg * Bank) /\ stage' = "chr"
        /\ ~in'.good => stage' = "failed" /\ UNCHANGED prg_rom
    BY <1>8, <2>1 DEF ReadPrg
  <2>3. file.magic /\ (in.good <=> file.size >= 16 + Trainer) /\ (in.good => in.at = 16 + Trainer)
    BY <1>1, <2>2 DEF Begun
  <2>4. /\ in' \in [at : Nat, good : BOOLEAN]
        /\ in'.good <=> in.good /\ in.at + n <= file.size
        /\ in'.good => in'.at = in.at + n
    BY <1>1, <1>2, <2>1, <2>2, AfterReadIs
  <2>5. CASE in'.good
    <3>1. PrgTypeOK(prg_rom)' /\ PrgOfFile'
      BY <1>1, <1>3, <2>2, <2>3, <2>4, <2>5, AheadIsPrg
    <3>2. in'.at = 16 + Trainer + 16384 * file.prg /\ in'.at <= file.size
      BY <1>2, <2>3, <2>4, <2>5
    <3> HIDE DEF n
    <3>3. Begun' /\ Found'
      BY <1>3, <1>4, <2>2, <2>3, <2>5, <3>1, <3>2 DEF Begun, Found
    <3> QED
      BY <1>1, <1>3, <2>2, <2>4, <2>5, <3>1, <3>3 DEF LoadInv
  <2>6. CASE ~in'.good
    <3>1. ~WholeFile
      BY <1>2, <2>3, <2>4, <2>6 DEF WholeFile
    <3> HIDE DEF n
    <3>2. Begun' /\ Found'
      BY <1>4, <2>2, <2>6, <3>1 DEF Begun, Found, GoodFile
    <3> QED
      BY <1>1, <1>3, <1>5, <2>2, <2>4, <2>6, <3>2 DEF LoadInv
  <2> QED
    BY <2>5, <2>6
<1>9. CASE ReadChr
  <2> DEFINE n == 8192 * file.chr
  <2>1. n \in Nat /\ file.chr * ChrBank = n
    BY <1>2 DEF ChrBank
  <2>2. /\ stage = "chr" /\ in' = AfterRead(n) /\ UNCHANGED prg_rom
        /\ stage' = IF in'.good THEN "mapper" ELSE "failed"
    BY <1>9, <2>1 DEF ReadChr
  <2>3. /\ file.magic /\ in.good /\ in.at = 16 + Trainer + 16384 * file.prg /\ PrgOfFile
    BY <1>1, <2>2 DEF Begun, Found
  <2>4. in' \in [at : Nat, good : BOOLEAN] /\ (in'.good <=> in.at + n <= file.size)
    BY <1>1, <1>2, <2>1, <2>2, <2>3, AfterReadIs
  <2>5. in'.good <=> WholeFile
    BY <1>2, <2>3, <2>4 DEF WholeFile
  <2> HIDE DEF n
  <2>6. Begun' /\ Found'
    BY <1>3, <1>4, <1>5, <2>2, <2>3, <2>5 DEF Begun, Found, GoodFile
  <2> QED
    BY <1>1, <1>3, <1>5, <2>2, <2>4, <2>6 DEF LoadInv
<1>10. CASE ChooseMapper
  <2>1. /\ stage = "mapper" /\ UNCHANGED <<in, prg_rom>>
        /\ stage' = IF MapperNumber = 0 THEN "ready" ELSE "failed"
    BY <1>10 DEF ChooseMapper
  <2>2. file.magic /\ WholeFile /\ PrgOfFile
    BY <1>1, <2>1 DEF Begun, Found
  <2>3. MapperNumber = 0 <=> file.flags6 < 16 /\ file.flags7 = 0
    BY <1>2 DEF MapperNumber
  <2>4. Begun' /\ Found'
    BY <1>4, <1>5, <2>1, <2>2, <2>3 DEF Begun, Found, GoodFile
  <2> QED
    BY <1>1, <1>3, <1>5, <2>1, <2>4 DEF LoadInv
<1> QED
  BY <1>6, <1>7, <1>8, <1>9, <1>10 DEF CartridgeNext

LEMMA InsertedTyped ==
    ASSUME file \in Files, PrgTypeOK(prg_rom), NEW ppu \in Ppus, NEW pad \in Pads
    PROVE  LET b == MakeBus({"ppu", "pad"}, ppu, pad, Mapper0(file.prg, prg_rom))
           IN  BusTypeOK(b) /\ ~b.thrown /\ b.cart = Mapper0(file.prg, prg_rom)
<1>1. CartTypeOK(Mapper0(file.prg, prg_rom))
  BY FileSizes DEF CartTypeOK, Mapper0
<1>2. PpuTypeOK(ppu) /\ PadTypeOK(pad)
  BY EmulatorAssumption
<1>3. SparseTypeOK(Blank, \h800)
  BY DEF SparseTypeOK, Blank
<1> QED
  BY <1>1, <1>2, <1>3 DEF MakeBus, BusTypeOK

(* The inductive invariant: there is a machine exactly from when a good     *)
(* file has been inserted, and the loader has come to its judgement.        *)
EmulatorInv ==
    /\ EmulatorTypeOK
    /\ LoadInv
    /\ phase = "load" => todo = 0
    /\ phase = "refused" => stage = "failed"
    /\ phase \notin {"load", "refused"} => stage = "ready"

LEMMA EmulatorInvInitially == EmulatorInit => EmulatorInv
<1> SUFFICES ASSUME EmulatorInit PROVE EmulatorInv
  OBVIOUS
<1>1. MaxFrames \in Nat
  BY EmulatorAssumption
<1>2. LoadInv /\ in \in [at : Nat, good : BOOLEAN] /\ PrgTypeOK(prg_rom)
  BY LoadInvInitially DEF EmulatorInit, LoadInv
<1> QED
  BY <1>1, <1>2 DEF EmulatorInit, EmulatorInv, EmulatorTypeOK

\* What the loop does to the machine it has been given.
LEMMA InsertIsPowerOn ==
    ASSUME EmulatorInv, Insert
    PROVE  PoweredOn' /\ MachineTypeOK' /\ cpu'.bus.cart = Mapper0(file.prg, prg_rom)
<1>1. PICK ppu \in Ppus, pad \in Pads :
          cpu' = PowerOn(MakeBus({"ppu", "pad"}, ppu, pad, Mapper0(file.prg, prg_rom)))
  BY DEF Insert
<1> DEFINE b == MakeBus({"ppu", "pad"}, ppu, pad, Mapper0(file.prg, prg_rom))
<1>2. BusTypeOK(b) /\ ~b.thrown /\ b.cart = Mapper0(file.prg, prg_rom)
  BY InsertedTyped DEF EmulatorInv, LoadInv
<1> HIDE DEF b
<1>3. cpu' = PowerOn(b) /\ todo' = 0
  BY <1>1 DEF b, Insert, EmulatorInv
<1>4. StateTypeOK(cpu') /\ ~cpu'.bus.thrown /\ cpu'.bus.cart = b.cart
  BY <1>2, <1>3, PoweredOnTyped
<1> QED
  BY <1>2, <1>3, <1>4 DEF PoweredOn, MachineTypeOK

LEMMA LoopUsesMachine ==
    ASSUME EmulatorInv, EmulatorNext, phase \notin {"load", "refused"}
    PROVE  /\ Used \/ UNCHANGED machineVars
           /\ Run => CycleOK
           /\ MachineTypeOK'
<1>1. MachineTypeOK
  BY DEF EmulatorInv, EmulatorTypeOK
<1>2. CASE Run
  <2>1. Cycle
    BY <1>2 DEF Run
  <2> QED
    BY <1>1, <2>1, CycleTyped DEF Used, CycleOK
<1>3. CASE ~Run /\ \E held \in Hands : Render(held)
  <2>1. Rendered
    <3>1. PICK held \in Hands : Render(held)
      BY <1>3
    <3>2. held \in SUBSET Button
      BY EmulatorAssumption
    <3>3. cpu' = [cpu EXCEPT !.bus.ppu = SetVblank(@), !.bus.keys = held] /\ UNCHANGED todo
      BY <3>1, Zenon DEF Render
    <3> QED
      BY <3>2, <3>3, Zenon DEF Rendered
  <2> QED
    BY <1>1, <1>3, <2>1, RenderedTyped DEF Used
<1>4. CASE ~Run /\ Interrupt
  <2>1. TriggerNmi \/ UNCHANGED machineVars
    BY <1>4 DEF Interrupt, machineVars
  <2>2. UNCHANGED machineVars /\ MachineTypeOK => MachineTypeOK'
    BY DEF machineVars, MachineTypeOK
  <2> QED
    BY <1>1, <1>4, <2>1, <2>2, TriggerNmiTyped DEF Used
<1>5. CASE ~Run /\ Over
  BY <1>1, <1>5 DEF Over, emulatorVars, machineVars, MachineTypeOK
<1> QED
  BY <1>2, <1>3, <1>4, <1>5 DEF EmulatorNext, ReadFile, Refuse, Insert

\* What the loop leaves of the loader's.
LEMMA LoadInvStays ==
    ASSUME LoadInv, UNCHANGED cartridgeVars
    PROVE  LoadInv' /\ UNCHANGED stage
<1>1. file' = file /\ in' = in /\ prg_rom' = prg_rom /\ stage' = stage
  BY DEF cartridgeVars
<1>2. Trainer' = Trainer /\ HasTrainer' = HasTrainer /\ WholeFile' = WholeFile /\ GoodFile' = GoodFile
  BY <1>1 DEF Trainer, HasTrainer, WholeFile, GoodFile
<1>3. PrgTypeOK(prg_rom)' = PrgTypeOK(prg_rom) /\ PrgOfFile' = PrgOfFile
  BY <1>1, <1>2 DEF PrgTypeOK, PrgOfFile
<1> QED
  BY <1>1, <1>2, <1>3 DEF LoadInv, Begun, Found

LEMMA EmulatorInvKept == EmulatorInv /\ [EmulatorNext]_emulatorVars => EmulatorInv'
<1> SUFFICES ASSUME EmulatorInv, [EmulatorNext]_emulatorVars PROVE EmulatorInv'
  OBVIOUS
<1>1. /\ {WarmupCycles, RenderCycles, VBlankCycles, MaxFrames} \subseteq Nat
      /\ left \in Nat /\ frame \in 0 .. MaxFrames /\ LoadInv
  BY EmulatorAssumption DEF EmulatorInv, EmulatorTypeOK
<1>2. UNCHANGED cartridgeVars => LoadInv' /\ UNCHANGED stage
  BY <1>1, LoadInvStays
<1>3. LoadInv' => (in \in [at : Nat, good : BOOLEAN] /\ PrgTypeOK(prg_rom))'
  BY DEF LoadInv
<1>4. CASE UNCHANGED emulatorVars
  <2>1. UNCHANGED cartridgeVars /\ UNCHANGED <<cpu, todo, phase, left, frame>>
    BY <1>4 DEF emulatorVars, cartridgeVars
  <2> QED
    BY <1>2, <1>3, <2>1 DEF EmulatorInv, EmulatorTypeOK, MachineTypeOK
<1>5. CASE ReadFile
  <2>1. LoadInv'
    BY <1>1, <1>5, LoadInvKept DEF ReadFile
  <2> QED
    BY <1>1, <1>3, <1>5, <2>1 DEF ReadFile, EmulatorInv, EmulatorTypeOK
<1>6. CASE Refuse
  <2>1. UNCHANGED cartridgeVars /\ UNCHANGED <<left, frame>>
        /\ stage = "failed" /\ phase' = "refused"
    BY <1>6 DEF Refuse
  <2> QED
    BY <1>1, <1>2, <1>3, <2>1 DEF EmulatorInv, EmulatorTypeOK
<1>7. CASE Insert
  <2>1. UNCHANGED cartridgeVars /\ UNCHANGED frame
        /\ stage = "ready" /\ phase' = "warmup" /\ left' = WarmupCycles
    BY <1>7 DEF Insert
  <2>2. MachineTypeOK'
    BY <1>7, InsertIsPowerOn
  <2> QED
    BY <1>1, <1>2, <1>3, <2>1, <2>2 DEF EmulatorInv, EmulatorTypeOK
<1>8. CASE Run
  <2>1. /\ phase \in {"warmup", "visible", "vblank"}
        /\ phase' = IF todo' = todo THEN "stopped" ELSE phase
        /\ left' = left - 1 /\ left > 0 /\ UNCHANGED cartridgeVars /\ UNCHANGED frame
    BY <1>8 DEF Run
  <2>2. left' \in Nat
    BY <1>1, <2>1
  <2>3. MachineTypeOK' /\ phase \notin {"load", "refused"}
    BY <1>8, <2>1, LoopUsesMachine DEF EmulatorNext
  <2> QED
    BY <1>1, <1>2, <1>3, <2>1, <2>2, <2>3 DEF EmulatorInv, EmulatorTypeOK
<1>9. CASE \E held \in Hands : Render(held)
  <2>1. /\ phase \in {"warmup", "vblank"} /\ phase' = "visible" /\ UNCHANGED cartridgeVars
        /\ left' = RenderCycles /\ frame < MaxFrames /\ frame' = frame + 1
    BY <1>9 DEF Render
  <2>2. frame' \in 0 .. MaxFrames
    BY <1>1, <2>1
  <2>3. MachineTypeOK' /\ phase \notin {"load", "refused"}
    BY <1>9, <2>1, LoopUsesMachine DEF EmulatorNext
  <2> QED
    BY <1>1, <1>2, <1>3, <2>1, <2>2, <2>3 DEF EmulatorInv, EmulatorTypeOK
<1>10. CASE Interrupt
  <2>1. /\ phase = "visible" /\ phase' = "vblank"
        /\ left' = VBlankCycles /\ UNCHANGED cartridgeVars /\ UNCHANGED frame
    BY <1>10 DEF Interrupt
  <2>2. MachineTypeOK' /\ phase \notin {"load", "refused"}
    BY <1>10, <2>1, LoopUsesMachine DEF EmulatorNext
  <2> QED
    BY <1>1, <1>2, <1>3, <2>1, <2>2 DEF EmulatorInv, EmulatorTypeOK
<1>11. CASE Over
  BY <1>4, <1>11 DEF Over
<1> QED
  BY <1>4, <1>5, <1>6, <1>7, <1>8, <1>9, <1>10, <1>11 DEF EmulatorNext

(* The whole emulator, with any file it is given, any player and frames of  *)
(* any length, keeps its types (nesemu.cpp:142, cpu.cpp:71, alu.cpp:477).   *)
THEOREM EmulatorAlwaysTyped == EmulatorSpec => []EmulatorTypeOK
<1>1. EmulatorInv => EmulatorTypeOK
  BY DEF EmulatorInv
<1> QED
  BY <1>1, EmulatorInvInitially, EmulatorInvKept, PTL DEF EmulatorSpec

(* Main loop and loader are a use of the machine as AnyProgram has it: what *)
(* is inserted is powered on, and each step from then on is one of Used.    *)
(* (cpu.cpp:71, alu.cpp:457-494).                                           *)
THEOREM EmulatorUsesMachine ==
    EmulatorSpec => [][/\ Insert => PoweredOn'
                       /\ phase \notin {"load", "refused"} => [Used]_machineVars]_emulatorVars
<1>1. EmulatorInv /\ [EmulatorNext]_emulatorVars =>
          [/\ Insert => PoweredOn'
           /\ phase \notin {"load", "refused"} => [Used]_machineVars]_emulatorVars
  BY InsertIsPowerOn, LoopUsesMachine
<1> QED
  BY <1>1, EmulatorInvInitially, EmulatorInvKept, PTL DEF EmulatorSpec

(* The exception that stops the program, of an invalid opcode or of         *)
(* Mapper0, comes before its instruction has changed a register, a flag or  *)
(* RAM, although nothing would undo it (alu.cpp:494).                       *)
THEOREM EmulatorStopsClean ==
    EmulatorSpec => [][Run /\ phase' = "stopped" => NothingHalfDone]_emulatorVars
<1>1. EmulatorInv /\ [EmulatorNext]_emulatorVars =>
          [Run /\ phase' = "stopped" => NothingHalfDone]_emulatorVars
  <2> SUFFICES ASSUME EmulatorInv, EmulatorNext, Run, phase' = "stopped"
               PROVE  NothingHalfDone
    OBVIOUS
  <2>1. phase \notin {"load", "refused"} /\ todo' = todo
    BY DEF Run
  <2> QED
    BY <2>1, LoopUsesMachine DEF CycleOK
<1> QED
  BY <1>1, EmulatorInvInitially, EmulatorInvKept, PTL DEF EmulatorSpec

(* Whatever the files, their sizes and their bytes: the loader's reads, one *)
(* of them unchecked, refuse each that is cut short anywhere or is for      *)
(* another mapper, and only those, and PRG is the file's, with a trainer    *)
(* before it or without (cartridge.cpp:67-110).                             *)
THEOREM FilesAlwaysJudged == EmulatorSpec => []FilesJudged
<1>1. EmulatorInv => FilesJudged
  BY DEF EmulatorInv, LoadInv, Found, FilesJudged
<1> QED
  BY <1>1, EmulatorInvInitially, EmulatorInvKept, PTL DEF EmulatorSpec

(* A program is found where it was linked to: when the machine is powered   *)
(* on, the byte read at an address in the last one or two banks of 16 kB is *)
(* the byte of the file as far from the end of its PRG as the address is    *)
(* from the end of memory, with a trainer before it or without              *)
(* (cartridge.cpp:25, cartridge.cpp:83-93).                                 *)
THEOREM ProgramsFoundWhereLinked ==
    EmulatorSpec =>
        [][Insert /\ file.prg \in {1, 2} =>
             \A addr \in (65536 - file.prg * Bank) .. 65535 :
                 PrgRead(cpu'.bus.cart, addr) =
                 ByteAt(file.data, Trainer + file.prg * Bank - (65536 - addr))]_emulatorVars
<1>1. ASSUME EmulatorInv, Insert, file.prg \in {1, 2},
             NEW addr \in (65536 - file.prg * Bank) .. 65535
      PROVE  PrgRead(cpu'.bus.cart, addr) =
             ByteAt(file.data, Trainer + file.prg * Bank - (65536 - addr))
  <2> DEFINE i == file.prg * Bank - (65536 - addr)
             cart == cpu'.bus.cart
  <2>1. /\ cart = Mapper0(file.prg, prg_rom) /\ PrgOfFile
        /\ Bank = 16384 /\ Trainer \in {0, 512} /\ Trainer \in Int
        /\ \A j \in DOMAIN file.data : j \in Nat
        /\ stage = "ready" /\ file \in Files
    BY <1>1, InsertIsPowerOn, FileSizes DEF EmulatorInv, LoadInv, Found, Insert, Bank
  <2>2. cart.kind = "Mapper0" /\ cart.banks = file.prg /\ cart.prg = prg_rom
    BY <2>1 DEF Mapper0
  <2> HIDE DEF cart
  <2>3. i \in 0 .. (16384 * file.prg - 1) /\ i \in Int /\ addr >= 32768
    BY <1>1, <2>1
  <2>4. PrgIndex(cart, addr) = i
    BY <1>1, <2>1, <2>2 DEF PrgIndex
  <2>5. PrgRead(cart, addr) = ByteAt(prg_rom, i)
    BY <2>2, <2>3, <2>4 DEF PrgRead, Mapper0Read
  <2>6. Trainer + file.prg * Bank - (65536 - addr) = i + Trainer
    BY <1>1, <2>1
  <2>7. (i + Trainer) - Trainer = i
    BY <2>1, <2>3
  <2> HIDE DEF i
  <2>8. i \in DOMAIN prg_rom => i + Trainer \in DOMAIN file.data
    BY <2>1 DEF PrgOfFile
  <2>9. i + Trainer \in DOMAIN file.data => i \in DOMAIN prg_rom /\ prg_rom[i] = file.data[i + Trainer]
    <3>1. ASSUME NEW j \in DOMAIN file.data, j = i + Trainer
          PROVE  i \in DOMAIN prg_rom /\ prg_rom[i] = file.data[j]
      <4>1. j - Trainer = i
        BY <2>7, <3>1
      <4> QED
        BY <2>1, <2>3, <3>1, <4>1 DEF PrgOfFile
    <3> QED
      BY <3>1
  <2> QED
    BY <2>5, <2>6, <2>8, <2>9 DEF ByteAt, cart
<1>2. EmulatorInv /\ [EmulatorNext]_emulatorVars =>
          [Insert /\ file.prg \in {1, 2} =>
             \A addr \in (65536 - file.prg * Bank) .. 65535 :
                 PrgRead(cpu'.bus.cart, addr) =
                 ByteAt(file.data, Trainer + file.prg * Bank - (65536 - addr))]_emulatorVars
  BY <1>1
<1> QED
  BY <1>2, EmulatorInvInitially, EmulatorInvKept, PTL DEF EmulatorSpec

-----------------------------------------------------------------------------
(* The controller                                                           *)
Power == <<1, 2, 4, 8, 16, 32, 64, 128, 256>>

\* The controller when n - 1 of the buttons have been read.
Reading(keys, n) == [reg |-> RegisterOf(keys) \div Power[n], strobe |-> FALSE]

Presses(keys) == \A n \in 1 .. 8 : Pressed(keys, n) \in {0, 1}

LEMMA OneOrNone == ASSUME NEW keys PROVE Presses(keys)
  BY DEF Presses, Pressed

(* Writing 1 and then 0 to 0x4016 loads what is held at the second write,   *)
(* whatever was in the register, and held before (controller.cpp:25-62).    *)
THEOREM StrobeLoadsKeys ==
    ASSUME NEW pad, NEW before, NEW keys, NEW v \in Nat, NEW w \in Nat,
           v % 2 = 1, w % 2 = 0
    PROVE  WriteStrobe(WriteStrobe(pad, before, v), keys, w) = Reading(keys, 1)
  <1>0. ~(w % 2 = 1)
    OBVIOUS
  <1>1. WriteStrobe(pad, before, v).strobe = (v % 2 = 1)
    BY Zenon DEF WriteStrobe
  <1>2. WriteStrobe(WriteStrobe(pad, before, v), keys, w) = [reg |-> RegisterOf(keys), strobe |-> FALSE]
    BY <1>0, <1>1, Zenon DEF WriteStrobe
  <1>3. RegisterOf(keys) \in Nat
    BY OneOrNone DEF RegisterOf, Presses
  <1>4. RegisterOf(keys) \div Power[1] = RegisterOf(keys)
    BY <1>3 DEF Power
  <1> QED
    BY <1>2, <1>4 DEF Reading

(* The value of a byte written in binary has its bits.                      *)
LEMMA BitsOfByte ==
    ASSUME NEW b1 \in {0, 1}, NEW b2 \in {0, 1}, NEW b3 \in {0, 1}, NEW b4 \in {0, 1},
           NEW b5 \in {0, 1}, NEW b6 \in {0, 1}, NEW b7 \in {0, 1}, NEW b8 \in {0, 1},
           NEW r, r = b1 + 2 * b2 + 4 * b3 + 8 * b4 + 16 * b5 + 32 * b6 + 64 * b7 + 128 * b8
    PROVE  /\ r % 2 = b1 /\ (r \div 2) % 2 = b2 /\ (r \div 4) % 2 = b3 /\ (r \div 8) % 2 = b4
           /\ (r \div 16) % 2 = b5 /\ (r \div 32) % 2 = b6 /\ (r \div 64) % 2 = b7
           /\ (r \div 128) % 2 = b8
  OBVIOUS

LEMMA ReadShifts ==
    ASSUME NEW n, NEW s
    PROVE  AfterReadJoy1([reg |-> n, strobe |-> s]) = [reg |-> n \div 2, strobe |-> s]
  <1> DEFINE pad == [reg |-> n, strobe |-> s]
  <1>1. DOMAIN pad = {"reg", "strobe"} /\ pad.reg = n /\ pad.strobe = s
    OBVIOUS
  <1>2. AfterReadJoy1(pad) = [f \in DOMAIN pad |-> IF f = "reg" THEN pad.reg \div 2 ELSE pad[f]]
    BY <1>1, Z3 DEF AfterReadJoy1
  <1> QED
    BY <1>1, <1>2, Z3

(* The nth read yields the nth button, and leaves the others to be read: no *)
(* button is lost, none comes twice, and none changes between the reads     *)
(* even if the player lets go (controller.cpp:64-69).                       *)
THEOREM ReadsInOrder ==
    ASSUME NEW keys, NEW n \in 1 .. 8
    PROVE  /\ ReadJoy1(Reading(keys, n)) = Pressed(keys, n)
           /\ AfterReadJoy1(Reading(keys, n)) = Reading(keys, n + 1)
  <1> DEFINE r == RegisterOf(keys)
             b(j) == Pressed(keys, j)
  <1>1. \A j \in 1 .. 8 : b(j) \in {0, 1}
    BY OneOrNone DEF Presses
  <1>2. /\ r % 2 = b(1) /\ (r \div 2) % 2 = b(2) /\ (r \div 4) % 2 = b(3) /\ (r \div 8) % 2 = b(4)
        /\ (r \div 16) % 2 = b(5) /\ (r \div 32) % 2 = b(6) /\ (r \div 64) % 2 = b(7)
        /\ (r \div 128) % 2 = b(8)
    <2>1. r = b(1) + 2 * b(2) + 4 * b(3) + 8 * b(4) + 16 * b(5) + 32 * b(6) + 64 * b(7) + 128 * b(8)
      BY DEF RegisterOf
    <2> QED
      BY <1>1, <2>1, BitsOfByte
  <1>3. r \in Nat /\ r \div 1 = r
    <2>1. r \in Nat
      BY <1>1 DEF RegisterOf
    <2> QED
      BY <2>1
  <1>5. /\ n = 1 => Power[n] = 1 /\ Power[n + 1] = 2
        /\ n = 2 => Power[n] = 2 /\ Power[n + 1] = 4
        /\ n = 3 => Power[n] = 4 /\ Power[n + 1] = 8
        /\ n = 4 => Power[n] = 8 /\ Power[n + 1] = 16
        /\ n = 5 => Power[n] = 16 /\ Power[n + 1] = 32
        /\ n = 6 => Power[n] = 32 /\ Power[n + 1] = 64
        /\ n = 7 => Power[n] = 64 /\ Power[n + 1] = 128
        /\ n = 8 => Power[n] = 128 /\ Power[n + 1] = 256
    BY DEF Power
  <1> HIDE DEF r, b
  <1>7. (r \div Power[n]) % 2 = b(n)
    BY <1>2, <1>3, <1>5
  <1>8. (r \div Power[n]) \div 2 = r \div Power[n + 1]
    BY <1>3, <1>5
  <1>9. Reading(keys, n) = [reg |-> r \div Power[n], strobe |-> FALSE]
        /\ Reading(keys, n + 1) = [reg |-> r \div Power[n + 1], strobe |-> FALSE]
        /\ b(n) = Pressed(keys, n)
    BY DEF Reading, r, b
  <1>10. ReadJoy1(Reading(keys, n)) = Pressed(keys, n)
    BY <1>7, <1>9 DEF ReadJoy1
  <1>11. AfterReadJoy1(Reading(keys, n)) = Reading(keys, n + 1)
    BY <1>8, <1>9, ReadShifts
  <1> QED
    BY <1>10, <1>11

-----------------------------------------------------------------------------
(* Sequences, as the user types them                                        *)
LEMMA SequenceIs ==
    ASSUME NEW s, IsSequence(s)
    PROVE  s \in Seq({s[n] : n \in 1 .. Len(s)}) /\ Len(s) \in Nat
<1>1. Len(s) \in Nat /\ s = [n \in 1 .. Len(s) |-> s[n]]
  BY DEF IsSequence
<1>2. s \in [1 .. Len(s) -> {s[n] : n \in 1 .. Len(s)}]
  BY <1>1
<1> QED
  BY <1>1, <1>2, SeqDef

LEMMA Subsequence ==
    ASSUME NEW s, IsSequence(s), NEW m \in Nat \ {0}, NEW n \in Nat, n <= Len(s)
    PROVE  /\ IsSequence(SubSeq(s, m, n))
           /\ Len(SubSeq(s, m, n)) = IF m <= n THEN n - m + 1 ELSE 0
           /\ \A i \in 1 .. Len(SubSeq(s, m, n)) : SubSeq(s, m, n)[i] = s[m + i - 1]
<1> DEFINE S == {s[i] : i \in 1 .. Len(s)}
           t == SubSeq(s, m, n)
<1>1. Len(s) \in Nat
  BY SequenceIs
<1>2. \A i \in m .. n : s[i] \in S
  BY <1>1
<1>3. /\ t \in Seq(S)
      /\ Len(t) = IF m <= n THEN n - m + 1 ELSE 0
      /\ \A i \in 1 .. n - m + 1 : t[i] = s[m + i - 1]
  <2> HIDE DEF S
  <2> QED
    BY <1>2, SubSeqProperties
<1> HIDE DEF t, S
<1>4. IsSequence(t)
  BY <1>3, LenProperties DEF IsSequence
<1>5. \A i \in 1 .. Len(t) : t[i] = s[m + i - 1]
  BY <1>3
<1> QED
  BY <1>3, <1>4, <1>5 DEF t

LEMMA TailOf ==
    ASSUME NEW s, IsSequence(s), s # <<>>
    PROVE  /\ Len(s) \in Nat \ {0}
           /\ IsSequence(Tail(s)) /\ Len(Tail(s)) = Len(s) - 1
           /\ \A i \in 1 .. Len(s) - 1 : Tail(s)[i] = s[i + 1]
<1> DEFINE S == {s[i] : i \in 1 .. Len(s)}
<1>1. s \in Seq(S)
  BY SequenceIs
<1> HIDE DEF S
<1>2. /\ Tail(s) \in Seq(S) /\ Len(Tail(s)) = Len(s) - 1
      /\ \A i \in 1 .. Len(Tail(s)) : Tail(s)[i] = s[i + 1]
  BY <1>1, HeadTailProperties
<1>3. Len(s) \in Nat \ {0}
  BY <1>1, EmptySeq
<1> QED
  BY <1>2, <1>3, LenProperties DEF IsSequence

-----------------------------------------------------------------------------
(* Numbers                                                                  *)
LEMMA Uint16Typed == ASSUME NEW n \in Int PROVE Uint16(n) \in Words
  BY Remainders DEF Uint16

LEMMA NibbleTyped == \A c \in HexDigit : Nibble[c] \in 0 .. 15
<1> TAKE c \in HexDigit
<1>1. \E n \in 1 .. 16 : Capital[n] = c \/ Small[n] = c
  BY DEF HexDigit
<1> DEFINE n == CHOOSE n \in 1 .. 16 : Capital[n] = c \/ Small[n] = c
<1>2. n \in 1 .. 16
  BY <1>1
<1>3. Nibble[c] = n - 1
  BY DEF Nibble
<1> HIDE DEF n
<1> QED
  BY <1>2, <1>3

(* The value, digit by digit.                                               *)
LEMMA PositionalIs ==
    ASSUME NEW d, IsSequence(d), \A n \in 1 .. Len(d) : d[n] \in HexDigit, NEW base \in Nat
    PROVE  \E f \in [0 .. Len(d) -> Words] :
              /\ f[0] = 0
              /\ \A n \in 1 .. Len(d) : f[n] = Uint16(f[n - 1] * base + Nibble[d[n]])
              /\ Positional(d, base) = f[Len(d)]
<1> DEFINE N == Len(d)
           H == [n \in 1 .. N |-> [v \in Words |-> Uint16(v * base + Nibble[d[n]])]]
           Value(f) == f = [n \in 0 .. N |->
                               IF n = 0 THEN 0 ELSE Uint16(f[n - 1] * base + Nibble[d[n]])]
<1>1. N \in Nat /\ 0 \in Words
  BY SequenceIs, WordIs
<1> HIDE DEF N
<1>2. \A n \in 1 .. N : \A v \in Words : Uint16(v * base + Nibble[d[n]]) \in Words
  <2>1. ASSUME NEW n \in 1 .. N, NEW v \in Words
        PROVE  Uint16(v * base + Nibble[d[n]]) \in Words
    <3>1. Nibble[d[n]] \in Int /\ v \in Int
      BY NibbleTyped, WordIs DEF N
    <3>2. v * base \in Int
      BY <3>1
    <3> DEFINE x == v * base
    <3>3. x \in Int
      BY <3>2
    <3> HIDE DEF x
    <3>4. x + Nibble[d[n]] \in Int
      BY <3>1, <3>3
    <3>5. Uint16(x + Nibble[d[n]]) \in Words
      BY <3>4, Uint16Typed
    <3> QED
      BY <3>5 DEF x
  <2> QED
    BY <2>1
<1>3. H \in [1 .. N -> [Words -> Words]]
  BY <1>2
<1>4. PICK f \in [0 .. N -> Words] : Recursive(f, N, 0, H)
  <2> HIDE DEF H
  <2>1. \E f \in [0 .. N -> Words] : Recursive(f, N, 0, H)
    BY <1>1, <1>3, RecursionDefines
  <2> QED BY <2>1
<1>5. \A n \in 1 .. N : H[n][f[n - 1]] = Uint16(f[n - 1] * base + Nibble[d[n]])
  BY <1>1
<1> HIDE DEF H
<1>6. \A n \in 0 .. N : f[n] = IF n = 0 THEN 0 ELSE H[n][f[n - 1]]
  BY <1>4 DEF Recursive
<1>7. \A n \in 0 .. N : n = 0 \/ n \in 1 .. N
  BY <1>1
<1>8. Value(f)
  <2>1. \A n \in 0 .. N : f[n] = IF n = 0 THEN 0 ELSE Uint16(f[n - 1] * base + Nibble[d[n]])
    BY <1>5, <1>6, <1>7
  <2> QED
    BY <2>1
<1> DEFINE g == CHOOSE g : Value(g)
<1>9. Value(g)
  <2> HIDE DEF Value
  <2> QED BY <1>8
<1>10. Positional(d, base) = g[N]
  BY DEF Positional, N
<1> HIDE DEF g
<1>11. g[0] = 0 /\ \A n \in 1 .. N : g[n] = Uint16(g[n - 1] * base + Nibble[d[n]])
  <2>1. \A n \in 0 .. N : g[n] = IF n = 0 THEN 0 ELSE Uint16(g[n - 1] * base + Nibble[d[n]])
    BY <1>9
  <2>2. 0 \in 0 .. N /\ \A n \in 1 .. N : n \in 0 .. N /\ n # 0
    BY <1>1
  <2> QED
    BY <2>1, <2>2
<1>12. 0 .. N \subseteq {n \in 0 .. N : g[n] \in Words}
  <2> DEFINE T == {n \in 0 .. N : g[n] \in Words}
  <2>1. 0 \in T
    BY <1>1, <1>11
  <2>2. \A n \in 1 .. N : n - 1 \in T => n \in T
    BY <1>1, <1>2, <1>11
  <2> HIDE DEF T
  <2>3. 0 .. N \subseteq T
    BY <1>1, <2>1, <2>2, InductionUpTo
  <2> QED
    BY <2>3 DEF T
<1>13. g \in [0 .. N -> Words]
  <2>1. g = [n \in 0 .. N |-> g[n]]
    BY <1>9
  <2> QED
    BY <1>12, <2>1
<1> QED
  BY <1>10, <1>11, <1>13 DEF N

LEMMA PositionalTyped ==
    ASSUME NEW d, IsSequence(d), \A n \in 1 .. Len(d) : d[n] \in HexDigit, NEW base \in Nat
    PROVE  Positional(d, base) \in Words
  BY PositionalIs, SequenceIs

(* The digits that a token begins with.                                     *)
LEMMA PrefixIs ==
    ASSUME NEW s, IsSequence(s), NEW base
    PROVE  /\ IsSequence(Prefix(s, base))
           /\ \A n \in 1 .. Len(Prefix(s, base)) : Prefix(s, base)[n] \in HexDigit
           /\ (\A n \in 1 .. Len(s) : IsDigit(s[n], base)) => Prefix(s, base) = s
<1> DEFINE N == Len(s)
           P(n) == (\A m \in 1 .. n : IsDigit(s[m], base)) /\ (n < N => ~IsDigit(s[n + 1], base))
<1>1. N \in Nat
  BY SequenceIs
<1> HIDE DEF N
<1>2. \E n \in 0 .. N : P(n)
  <2> SUFFICES ASSUME \A n \in 0 .. N : ~P(n) PROVE FALSE
    OBVIOUS
  <2> DEFINE T == {n \in 0 .. N : \A m \in 1 .. n : IsDigit(s[m], base)}
  <2>1. 0 \in T
    BY <1>1
  <2>2. ASSUME NEW n \in 1 .. N, n - 1 \in T PROVE n \in T
    <3>1. n - 1 \in 0 .. N /\ n - 1 < N /\ (n - 1) + 1 = n /\ \A m \in 1 .. n : m = n \/ m \in 1 .. n - 1
      BY <1>1
    <3>2. \A m \in 1 .. n - 1 : IsDigit(s[m], base)
      BY <2>2
    <3>3. ~P(n - 1)
      BY <3>1
    <3>4. IsDigit(s[n], base)
      BY <3>1, <3>2, <3>3
    <3> QED
      BY <1>1, <3>1, <3>2, <3>4
  <2> HIDE DEF T
  <2>3. 0 .. N \subseteq T
    BY <1>1, <2>1, <2>2, InductionUpTo
  <2>4. N \in T
    BY <1>1, <2>3
  <2> QED
    BY <1>1, <2>4 DEF T
<1> DEFINE l == Leading(s, base)
<1>3. l \in 0 .. N /\ P(l)
  <2>1. l = CHOOSE n \in 0 .. N : P(n)
    BY DEF Leading, N
  <2> HIDE DEF l, P
  <2> QED
    BY <1>2, <2>1
<1> DEFINE t == Prefix(s, base)
<1>4. t = SubSeq(s, 1, l)
  BY DEF Prefix
<1> HIDE DEF l, t
<1>5. IsSequence(t) /\ Len(t) = l /\ \A i \in 1 .. l : t[i] = s[i]
  <2>1. l \in Nat /\ l <= N
    BY <1>1, <1>3
  <2>2. /\ IsSequence(t) /\ Len(t) = IF 1 <= l THEN l - 1 + 1 ELSE 0
        /\ \A i \in 1 .. Len(t) : t[i] = s[1 + i - 1]
    BY <1>4, <2>1, Subsequence DEF N
  <2> QED
    BY <2>1, <2>2
<1>6. \A n \in 1 .. l : t[n] \in HexDigit
  BY <1>3, <1>5 DEF IsDigit
<1>7. ASSUME \A n \in 1 .. N : IsDigit(s[n], base)
      PROVE  t = s
  <2>1. l = N
    <3>1. l < N => l + 1 \in 1 .. N
      BY <1>1, <1>3
    <3> QED
      BY <1>1, <1>3, <1>7, <3>1
  <2>2. t = [n \in 1 .. N |-> t[n]] /\ s = [n \in 1 .. N |-> s[n]]
    BY <1>5, <2>1 DEF IsSequence, N
  <2> QED
    BY <1>5, <2>1, <2>2
<1> QED
  BY <1>5, <1>6, <1>7 DEF t, N

LEMMA UnsignedTyped ==
    ASSUME NEW s, IsSequence(s)
    PROVE  Unsigned(s) \in Words
<1>1. Len(s) \in Nat
  BY SequenceIs
<1>2. \A t : \A base \in Nat : IsSequence(t) => Positional(Prefix(t, base), base) \in Words
  BY PrefixIs, PositionalTyped
<1>3. Len(s) > 2 => IsSequence(SubSeq(s, 3, Len(s)))
  BY <1>1, Subsequence
<1> QED
  BY <1>2, <1>3 DEF Unsigned

LEMMA ParseNumTyped ==
    ASSUME NEW s, IsSequence(s)
    PROVE  ParseNum(s) \in Words \union {-1}
<1>1. CASE s = <<>>
  BY <1>1 DEF ParseNum
<1>2. CASE s # <<>>
  <2>1. IsSequence(Tail(s))
    BY <1>2, TailOf
  <2>2. Unsigned(s) \in Words /\ Unsigned(Tail(s)) \in Words
    BY <2>1, UnsignedTyped
  <2>3. Uint16(-Unsigned(Tail(s))) \in Words
    BY <2>2, WordIs, Uint16Typed
  <2>4. Hex(Tail(s)) \in Words \union {-1}
    BY <2>1, PositionalTyped DEF Hex
  <2> QED
    BY <2>2, <2>3, <2>4 DEF ParseNum, Strtol
<1> QED
  BY <1>1, <1>2

LEMMA Uint16Same == ASSUME NEW n \in Int, 0 <= n, n < 65536 PROVE Uint16(n) = n
  BY DEF Uint16

\* One digit more, and one digit out of four.
Shift(p, base, d) == p * base + d
Bases == {10, 16}
Digits(base) == 0 .. base - 1

HexOf(a, b, c, d) == Shift(Shift(Shift(a, 16, b), 16, c), 16, d)
DecOf(a, b, c, d) == Shift(Shift(Shift(a, 10, b), 10, c), 10, d)
HexAt(n, j) == (n \div Place.hex[j]) % 16
DecAt(n, j) == (n \div Place.dec[j]) % 10

\* p is a number of at most n hexadecimal digits, n < 5.
Most == <<0, 15, 255, 4095, 65535>>
Fits(p, n) == p \in Nat /\ p <= Most[n + 1]

LEMMA HexPlaces ==
    ASSUME NEW a \in Digits(16), NEW b \in Digits(16), NEW c \in Digits(16), NEW d \in Digits(16)
    PROVE  /\ HexAt(HexOf(a, b, c, d), 1) = d /\ HexAt(HexOf(a, b, c, d), 2) = c
           /\ HexAt(HexOf(a, b, c, d), 3) = b /\ HexAt(HexOf(a, b, c, d), 4) = a
<1>10. a \in 0 .. 15 /\ b \in 0 .. 15 /\ c \in 0 .. 15 /\ d \in 0 .. 15
  BY DEF Digits
<1> DEFINE n == HexOf(a, b, c, d)
           p == n \div 1   q == n \div 16   r == n \div 256   s == n \div 4096
<1>0. n = 4096 * a + 256 * b + 16 * c + d
  BY <1>10 DEF Shift, HexOf
<1> HIDE DEF n
<1>1. n \in Nat /\ p = n
  BY <1>0, <1>10
<1>2. q = 256 * a + 16 * b + c
  BY <1>0, <1>10
<1>3. r = 16 * a + b
  BY <1>0, <1>10
<1>4. s = a
  BY <1>0, <1>10
<1>6. n % 16 = d
  BY <1>0, <1>10
<1>7. HexAt(n, 1) = p % 16 /\ HexAt(n, 2) = q % 16 /\ HexAt(n, 3) = r % 16 /\ HexAt(n, 4) = s % 16
  BY DEF HexAt, Place
<1> HIDE DEF p, q, r, s
<1>8. q % 16 = c
  BY <1>2, <1>10
<1>9. r % 16 = b /\ s % 16 = a
  BY <1>3, <1>4, <1>10
<1> QED
  BY <1>1, <1>6, <1>7, <1>8, <1>9 DEF n

LEMMA DecPlaces ==
    ASSUME NEW a \in Digits(10), NEW b \in Digits(10), NEW c \in Digits(10), NEW d \in Digits(10)
    PROVE  /\ DecAt(DecOf(a, b, c, d), 1) = d /\ DecAt(DecOf(a, b, c, d), 2) = c
           /\ DecAt(DecOf(a, b, c, d), 3) = b /\ DecAt(DecOf(a, b, c, d), 4) = a
<1>10. a \in 0 .. 9 /\ b \in 0 .. 9 /\ c \in 0 .. 9 /\ d \in 0 .. 9
  BY DEF Digits
<1> DEFINE n == DecOf(a, b, c, d)
           p == n \div 1   q == n \div 10   r == n \div 100   s == n \div 1000
<1>0. n = 1000 * a + 100 * b + 10 * c + d
  BY <1>10 DEF Shift, DecOf
<1> HIDE DEF n
<1>1. n \in Nat /\ p = n
  BY <1>0, <1>10
<1>2. q = 100 * a + 10 * b + c
  BY <1>0, <1>10
<1>3. r = 10 * a + b
  BY <1>0, <1>10
<1>4. s = a
  BY <1>0, <1>10
<1>6. n % 10 = d
  BY <1>0, <1>10
<1>7. DecAt(n, 1) = p % 10 /\ DecAt(n, 2) = q % 10 /\ DecAt(n, 3) = r % 10 /\ DecAt(n, 4) = s % 10
  BY DEF DecAt, Place
<1> HIDE DEF p, q, r, s
<1>8. q % 10 = c
  BY <1>2, <1>10
<1>9. r % 10 = b /\ s % 10 = a
  BY <1>3, <1>4, <1>10
<1> QED
  BY <1>1, <1>6, <1>7, <1>8, <1>9 DEF n

\* A numeral of up to four digits, with zeros before it.
Digit(t, j) == IF j \in 1 .. Len(t) THEN Nibble[t[j]] ELSE 0
FromEnd(t, j) == Digit(t, Len(t) - j)

LEMMA NextDigit ==
    ASSUME NEW base \in Bases, NEW n \in Nat, n < 4, NEW m, m = n + 1, NEW p, Fits(p, n), NEW d \in Digits(16)
    PROVE  Uint16(Shift(p, base, d)) = Shift(p, base, d) /\ Fits(Shift(p, base, d), m)
<1> DEFINE q == Shift(p, base, d)
<1>1. d \in 0 .. 15 /\ (q = p * 10 + d \/ q = p * 16 + d)
  BY DEF Shift, Bases, Digits
<1> HIDE DEF q
<1>2. p \in Nat /\ q \in Nat /\ q <= 16 * p + 15
  BY <1>1 DEF Fits
<1>3. Fits(q, m)
  BY <1>2 DEF Fits, Most
<1>4. q < 65536
  BY <1>3 DEF Fits, Most
<1> QED
  BY <1>2, <1>3, <1>4, Uint16Same DEF q

LEMMA ShiftOfZero == ASSUME NEW base \in Bases, NEW d \in Int PROVE Shift(0, base, d) = d
<1>1. base \in Int /\ 0 * base = 0
  BY DEF Bases
<1> QED
  BY <1>1 DEF Shift

(* The value of such a numeral, which fits: nothing is cut off.             *)
LEMMA ShortPositional ==
    ASSUME NEW t, IsSequence(t), Len(t) \in 1 .. 4, NEW base \in Bases,
           \A n \in 1 .. Len(t) : t[n] \in HexDigit /\ Nibble[t[n]] < base
    PROVE  /\ Positional(t, base) = Shift(Shift(Shift(FromEnd(t, 3), base, FromEnd(t, 2)), base,
                                             FromEnd(t, 1)), base, FromEnd(t, 0))
           /\ \A j \in 0 .. 3 : FromEnd(t, j) \in Digits(base)
<1> DEFINE L == Len(t)
           d == [n \in 1 .. L |-> Nibble[t[n]]]
           P == Positional(t, base)
<1>0. base \in Nat /\ \A n \in 1 .. Len(t) : t[n] \in HexDigit
  BY DEF Bases
<1>1. PICK f \in [0 .. Len(t) -> Words] :
          /\ f[0] = 0
          /\ \A n \in 1 .. Len(t) : f[n] = Uint16(f[n - 1] * base + Nibble[t[n]])
          /\ Positional(t, base) = f[Len(t)]
  BY <1>0, PositionalIs
<1>2. \A n \in 1 .. L : f[n] = Uint16(Shift(f[n - 1], base, d[n])) /\ d[n] = Nibble[t[n]]
  BY <1>1 DEF Shift
<1>3. \A n \in 1 .. L : d[n] \in Digits(base) /\ d[n] \in Digits(16) /\ d[n] \in Int
  <2>1. ASSUME NEW n \in 1 .. L
        PROVE  Nibble[t[n]] \in 0 .. 15 /\ Nibble[t[n]] < base
    BY <2>1, NibbleTyped
  <2>2. ASSUME NEW m \in 0 .. 15, m < base
        PROVE  m \in Digits(base) /\ m \in Digits(16) /\ m \in Int
    BY <1>0, <2>2 DEF Digits
  <2>3. \A n \in 1 .. L : d[n] = Nibble[t[n]]
    OBVIOUS
  <2> HIDE DEF d, L
  <2> QED
    BY <2>1, <2>2, <2>3
<1>4. /\ FromEnd(t, 0) = IF 0 < L THEN d[L] ELSE 0
      /\ FromEnd(t, 1) = IF 1 < L THEN d[L - 1] ELSE 0
      /\ FromEnd(t, 2) = IF 2 < L THEN d[L - 2] ELSE 0
      /\ FromEnd(t, 3) = IF 3 < L THEN d[L - 3] ELSE 0
  BY DEF FromEnd, Digit
<1>5. L \in 1 .. 4 /\ f[0] = 0 /\ P = f[L]
  BY <1>1
<1> HIDE DEF d, L, P
<1>6. f[1] = Shift(f[0], base, d[1]) /\ Fits(f[1], 1)
  <2>1. 1 \in 1 .. L /\ 1 - 1 = 0 /\ (0) + 1 = 1 /\ 0 \in Nat /\ 0 < 4
    BY <1>5
  <2>2. f[1] = Uint16(Shift(f[0], base, d[1])) /\ d[1] \in Digits(16) /\ d[1] \in Int
    BY <1>2, <1>3, <2>1
  <2>3. Fits(f[0], 0)
    BY <1>5 DEF Fits, Most
  <2>4. /\ Uint16(Shift(f[0], base, d[1])) = Shift(f[0], base, d[1])
        /\ Fits(Shift(f[0], base, d[1]), 1)
    BY <2>1, <2>2, <2>3, NextDigit
  <2> QED
    BY <2>2, <2>4
<1>7. L >= 2 => f[2] = Shift(f[1], base, d[2]) /\ Fits(f[2], 2)
  <2>1. L >= 2 => 2 \in 1 .. L /\ 2 - 1 = 1 /\ (1) + 1 = 2 /\ 1 \in Nat /\ 1 < 4
    BY <1>5
  <2>2. L >= 2 => f[2] = Uint16(Shift(f[1], base, d[2])) /\ d[2] \in Digits(16) /\ d[2] \in Int
    BY <1>2, <1>3, <2>1
  <2>3. L >= 2 => Fits(f[1], 1)
    BY <1>5, <1>6
  <2>4. L >= 2 => /\ Uint16(Shift(f[1], base, d[2])) = Shift(f[1], base, d[2])
                 /\ Fits(Shift(f[1], base, d[2]), 2)
    BY <2>1, <2>2, <2>3, NextDigit
  <2> QED
    BY <2>2, <2>4
<1>8. L >= 3 => f[3] = Shift(f[2], base, d[3]) /\ Fits(f[3], 3)
  <2>1. L >= 3 => 3 \in 1 .. L /\ 3 - 1 = 2 /\ (2) + 1 = 3 /\ 2 \in Nat /\ 2 < 4
    BY <1>5
  <2>2. L >= 3 => f[3] = Uint16(Shift(f[2], base, d[3])) /\ d[3] \in Digits(16) /\ d[3] \in Int
    BY <1>2, <1>3, <2>1
  <2>3. L >= 3 => Fits(f[2], 2)
    BY <1>5, <1>7
  <2>4. L >= 3 => /\ Uint16(Shift(f[2], base, d[3])) = Shift(f[2], base, d[3])
                 /\ Fits(Shift(f[2], base, d[3]), 3)
    BY <2>1, <2>2, <2>3, NextDigit
  <2> QED
    BY <2>2, <2>4
<1>9. L >= 4 => f[4] = Shift(f[3], base, d[4]) /\ Fits(f[4], 4)
  <2>1. L >= 4 => 4 \in 1 .. L /\ 4 - 1 = 3 /\ (3) + 1 = 4 /\ 3 \in Nat /\ 3 < 4
    BY <1>5
  <2>2. L >= 4 => f[4] = Uint16(Shift(f[3], base, d[4])) /\ d[4] \in Digits(16) /\ d[4] \in Int
    BY <1>2, <1>3, <2>1
  <2>3. L >= 4 => Fits(f[3], 3)
    BY <1>5, <1>8
  <2>4. L >= 4 => /\ Uint16(Shift(f[3], base, d[4])) = Shift(f[3], base, d[4])
                 /\ Fits(Shift(f[3], base, d[4]), 4)
    BY <2>1, <2>2, <2>3, NextDigit
  <2> QED
    BY <2>2, <2>4
<1> DEFINE F0 == FromEnd(t, 0)  F1 == FromEnd(t, 1)  F2 == FromEnd(t, 2)  F3 == FromEnd(t, 3)
<1>10. F0 \in Digits(base) /\ F1 \in Digits(base) /\ F2 \in Digits(base) /\ F3 \in Digits(base)
  <2>1. 0 \in Digits(base)
    BY DEF Digits, Bases
  <2> QED
    BY <1>3, <1>4, <1>5, <2>1
<1> HIDE DEF F0, F1, F2, F3
<1>11. P = Shift(Shift(Shift(F3, base, F2), base, F1), base, F0)
  <2>1. 0 \in Int /\ F0 \in Int /\ F1 \in Int /\ F2 \in Int /\ F3 \in Int
    BY <1>10 DEF Digits, Bases
  <2>6. f[1] = d[1]
    BY <1>3, <1>5, <1>6, ShiftOfZero
  <2>2. CASE L = 1
    <3>1. F3 = 0 /\ F2 = 0 /\ F1 = 0 /\ F0 = P
      BY <1>4, <1>5, <1>6, <2>6, <2>2 DEF F0, F1, F2, F3
    <3> QED
      BY <2>1, <3>1, ShiftOfZero
  <2>3. CASE L = 2
    <3>1. F3 = 0 /\ F2 = 0 /\ P = Shift(F1, base, F0)
      BY <1>4, <1>5, <1>6, <2>6, <1>7, <2>3 DEF F0, F1, F2, F3
    <3> QED
      BY <2>1, <3>1, ShiftOfZero
  <2>4. CASE L = 3
    <3>1. F3 = 0 /\ P = Shift(Shift(F2, base, F1), base, F0)
      BY <1>4, <1>5, <1>6, <2>6, <1>7, <1>8, <2>4 DEF F0, F1, F2, F3
    <3> QED
      BY <2>1, <3>1, ShiftOfZero
  <2>5. CASE L = 4
    BY <1>4, <1>5, <1>6, <2>6, <1>7, <1>8, <1>9, <2>5 DEF F0, F1, F2, F3
  <2> QED
    BY <1>5, <2>2, <2>3, <2>4, <2>5
<1>12. \A j \in 0 .. 3 : FromEnd(t, j) \in Digits(base)
  <2>1. \A j \in 0 .. 3 : j = 0 \/ j = 1 \/ j = 2 \/ j = 3
    OBVIOUS
  <2> QED
    BY <1>10, <2>1 DEF F0, F1, F2, F3
<1> QED
  BY <1>11, <1>12 DEF P, F0, F1, F2, F3

(* The digits of that value are the digits that were typed.                 *)
LEMMA HexBack ==
    ASSUME NEW t, IsSequence(t), Len(t) \in 1 .. 4, \A n \in 1 .. Len(t) : t[n] \in HexDigit
    PROVE  HexNumeral(Positional(t, 16), Len(t)) = InCapitals(t)
<1> DEFINE n == Positional(t, 16)
<1>0. \A j \in 1 .. Len(t) : t[j] \in HexDigit /\ Nibble[t[j]] < 16
  BY NibbleTyped
<1>1. /\ n = Shift(Shift(Shift(FromEnd(t, 3), 16, FromEnd(t, 2)), 16, FromEnd(t, 1)), 16, FromEnd(t, 0))
      /\ \A j \in 0 .. 3 : FromEnd(t, j) \in Digits(16)
  BY <1>0, ShortPositional DEF Bases
<1> DEFINE a == FromEnd(t, 3)  b == FromEnd(t, 2)  c == FromEnd(t, 1)  d == FromEnd(t, 0)
<1>6. a \in Digits(16) /\ b \in Digits(16) /\ c \in Digits(16) /\ d \in Digits(16)
  BY <1>1
<1> HIDE DEF a, b, c, d, n
<1>7. n = HexOf(a, b, c, d)
  BY <1>1 DEF HexOf, a, b, c, d
<1>8. /\ HexAt(HexOf(a, b, c, d), 1) = d /\ HexAt(HexOf(a, b, c, d), 2) = c
      /\ HexAt(HexOf(a, b, c, d), 3) = b /\ HexAt(HexOf(a, b, c, d), 4) = a
  BY <1>6, HexPlaces
<1>2. HexAt(n, 1) = d /\ HexAt(n, 2) = c /\ HexAt(n, 3) = b /\ HexAt(n, 4) = a
  BY <1>7, <1>8
<1>3. \A j \in 0 .. 3 : HexAt(n, j + 1) = FromEnd(t, j)
  <2>1. \A j \in 0 .. 3 : j = 0 \/ j = 1 \/ j = 2 \/ j = 3
    OBVIOUS
  <2>2. 0 + 1 = 1 /\ 1 + 1 = 2 /\ 2 + 1 = 3 /\ 3 + 1 = 4
    OBVIOUS
  <2> QED
    BY <1>2, <2>1, <2>2 DEF a, b, c, d
<1>4. \A j \in 1 .. Len(t) : HexAt(n, Len(t) - j + 1) = Nibble[t[j]]
  <2> TAKE j \in 1 .. Len(t)
  <2>1. Len(t) - j \in 0 .. 3 /\ Len(t) - (Len(t) - j) = j
    OBVIOUS
  <2> QED
    BY <1>3, <2>1 DEF FromEnd, Digit
<1>5. \A j \in 1 .. Len(t) : Capital[((n \div Place.hex[Len(t) - j + 1]) % 16) + 1]
                             = Capital[Nibble[t[j]] + 1]
  BY <1>4 DEF HexAt
<1> QED
  BY <1>5 DEF HexNumeral, InCapitals, n

LEMMA DecimalDigits ==
    ASSUME NEW c \in Decimal
    PROVE  c \in HexDigit /\ Nibble[c] \in 0 .. 9 /\ Capital[Nibble[c] + 1] = c /\ (c = "0" => Nibble[c] = 0)
<1>1. PICK n \in 1 .. 10 : c = Capital[n]
  BY DEF Decimal
<1>2. \A m \in 1 .. 16 : Capital[m] = c \/ Small[m] = c => m = n
  BY <1>1 DEF Capital, Small
<1>3. c \in HexDigit
  BY <1>1 DEF HexDigit
<1>4. (CHOOSE m \in 1 .. 16 : Capital[m] = c \/ Small[m] = c) = n
  BY <1>1, <1>2
<1>5. Nibble[c] = n - 1
  BY <1>3, <1>4 DEF Nibble
<1>6. c = "0" => n = 1
  BY <1>1 DEF Capital
<1> QED
  BY <1>1, <1>3, <1>5, <1>6

LEMMA DecBack ==
    ASSUME NEW t, IsSequence(t), Len(t) \in 1 .. 4, \A n \in 1 .. Len(t) : t[n] \in Decimal
    PROVE  DecNumeral(Positional(t, 10), Len(t)) = t
<1> DEFINE n == Positional(t, 10)
<1>0. \A j \in 1 .. Len(t) : t[j] \in HexDigit /\ Nibble[t[j]] < 10 /\ Capital[Nibble[t[j]] + 1] = t[j]
  BY DecimalDigits
<1>1. /\ n = Shift(Shift(Shift(FromEnd(t, 3), 10, FromEnd(t, 2)), 10, FromEnd(t, 1)), 10, FromEnd(t, 0))
      /\ \A j \in 0 .. 3 : FromEnd(t, j) \in Digits(10)
  BY <1>0, ShortPositional DEF Bases
<1> DEFINE a == FromEnd(t, 3)  b == FromEnd(t, 2)  c == FromEnd(t, 1)  d == FromEnd(t, 0)
<1>6. a \in Digits(10) /\ b \in Digits(10) /\ c \in Digits(10) /\ d \in Digits(10)
  BY <1>1
<1> HIDE DEF a, b, c, d, n
<1>7. n = DecOf(a, b, c, d)
  BY <1>1 DEF DecOf, a, b, c, d
<1>8. /\ DecAt(DecOf(a, b, c, d), 1) = d /\ DecAt(DecOf(a, b, c, d), 2) = c
      /\ DecAt(DecOf(a, b, c, d), 3) = b /\ DecAt(DecOf(a, b, c, d), 4) = a
  BY <1>6, DecPlaces
<1>2. DecAt(n, 1) = d /\ DecAt(n, 2) = c /\ DecAt(n, 3) = b /\ DecAt(n, 4) = a
  BY <1>7, <1>8
<1>3. \A j \in 0 .. 3 : DecAt(n, j + 1) = FromEnd(t, j)
  <2>1. \A j \in 0 .. 3 : j = 0 \/ j = 1 \/ j = 2 \/ j = 3
    OBVIOUS
  <2>2. 0 + 1 = 1 /\ 1 + 1 = 2 /\ 2 + 1 = 3 /\ 3 + 1 = 4
    OBVIOUS
  <2> QED
    BY <1>2, <2>1, <2>2 DEF a, b, c, d
<1>4. \A j \in 1 .. Len(t) : DecAt(n, Len(t) - j + 1) = Nibble[t[j]]
  <2> TAKE j \in 1 .. Len(t)
  <2>1. Len(t) - j \in 0 .. 3 /\ Len(t) - (Len(t) - j) = j
    OBVIOUS
  <2> QED
    BY <1>3, <2>1 DEF FromEnd, Digit
<1>5. \A j \in 1 .. Len(t) : Capital[((n \div Place.dec[Len(t) - j + 1]) % 10) + 1] = t[j]
  BY <1>0, <1>4 DEF DecAt
<1>9. t = [j \in 1 .. Len(t) |-> t[j]]
  BY DEF IsSequence
<1> QED
  BY <1>5, <1>9 DEF DecNumeral, n

LEMMA HexAsWritten ==
    ASSUME NEW s, IsSequence(s), HexFormat(s)
    PROVE  HexNumeral(ParseNum(s), Len(s) - 1) = InCapitals(Tail(s))
<1> DEFINE t == Tail(s)
<1>1. Len(s) \in 2 .. 5 /\ s[1] = "$" /\ s # <<>>
  BY DEF HexFormat
<1>2. IsSequence(t) /\ Len(t) = Len(s) - 1
  BY <1>1, TailOf
<1>3. \A n \in 1 .. Len(t) : t[n] \in HexDigit
  BY DEF HexFormat, AllIn
<1>4. "$" \notin Decimal \union {"-"}
  BY DEF Decimal, Capital
<1>5. t # <<>>
  BY <1>1, <1>2
<1> HIDE DEF t
<1>6. Hex(t) = Positional(t, 16)
  BY <1>3, <1>5 DEF Hex
<1>7. ParseNum(s) = Positional(t, 16)
  BY <1>1, <1>4, <1>6 DEF ParseNum, t
<1>8. Len(t) \in 1 .. 4
  BY <1>1, <1>2
<1> QED
  BY <1>2, <1>3, <1>7, <1>8, HexBack DEF t

LEMMA DecAsWritten ==
    ASSUME NEW s, IsSequence(s), DecFormat(s)
    PROVE  DecNumeral(ParseNum(s), Len(s)) = s
<1>1. Len(s) \in 1 .. 4 /\ s # <<>> /\ \A n \in 1 .. Len(s) : s[n] \in Decimal
  BY DEF DecFormat, AllIn
<1>2. s[1] \in Decimal /\ s[1] # "-"
  <2>1. s[1] \in Decimal
    BY <1>1
  <2>2. "-" \notin Decimal
    BY DEF Decimal, Capital
  <2> QED
    BY <2>1, <2>2
<1>3. ParseNum(s) = Unsigned(s)
  BY <1>1, <1>2 DEF ParseNum, Strtol
<1>4. \A n \in 1 .. Len(s) : s[n] \in HexDigit /\ Nibble[s[n]] \in 0 .. 9
  BY <1>1, DecimalDigits
<1>5. CASE s[1] = "0"
  <2>1. Len(s) = 1 /\ Nibble[s[1]] = 0 /\ Nibble[s[1]] + 1 = 1
    BY <1>2, <1>5, DecimalDigits DEF DecFormat
  <2>2. \A base \in {8, 10} : Positional(s, base) = 0
    <3> TAKE base \in {8, 10}
    <3>1. PICK f \in [0 .. Len(s) -> Words] :
              /\ f[0] = 0
              /\ \A n \in 1 .. Len(s) : f[n] = Uint16(f[n - 1] * base + Nibble[s[n]])
              /\ Positional(s, base) = f[Len(s)]
      BY <1>4, PositionalIs
    <3>2. f[1] = Uint16(0)
      BY <2>1, <3>1
    <3> QED
      BY <2>1, <3>1, <3>2, Uint16Same
  <2>3. \A n \in 1 .. Len(s) : IsDigit(s[n], 8)
    BY <1>4, <2>1 DEF IsDigit
  <2>4. Prefix(s, 8) = s
    BY <2>3, PrefixIs
  <2>5. Unsigned(s) = Positional(s, 8)
    BY <1>1, <1>5, <2>1, <2>4 DEF Unsigned
  <2> QED
    BY <1>1, <1>3, <2>2, <2>5, DecBack
<1>6. CASE s[1] # "0"
  <2>1. \A n \in 1 .. Len(s) : IsDigit(s[n], 10)
    BY <1>4 DEF IsDigit
  <2>2. Prefix(s, 10) = s
    BY <2>1, PrefixIs
  <2>3. Unsigned(s) = Positional(s, 10)
    BY <1>6, <2>2 DEF Unsigned
  <2> QED
    BY <1>1, <1>3, <2>3, DecBack
<1> QED
  BY <1>5, <1>6

-----------------------------------------------------------------------------
(* The breakpoints                                                          *)
Lines == UNION {Typed[n] : n \in 1 .. Len(Typed)}

LEMMA LinesAreSequences ==
    ASSUME NEW line \in Lines
    PROVE  IsSequence(line) /\ \A j \in 2 .. Len(line) : IsSequence(line[j])
  BY TypedAssumption DEF Lines

(* extract_num reads one token after another, and answers -1 if there is    *)
(* none.                                                                    *)
LEMMA NumberOfToken ==
    ASSUME NEW line \in Lines, NEW n \in Nat \ {0}
    PROVE  /\ Number(line, n) = IF Len(line) > n THEN ParseNum(line[n + 1]) ELSE -1
           /\ Number(line, n) \in Words \union {-1}
<1> DEFINE rest == SubSeq(line, n + 1, Len(line))
<1>1. IsSequence(line) /\ Len(line) \in Nat
  BY LinesAreSequences, SequenceIs
<1>2. /\ IsSequence(rest)
      /\ Len(rest) = IF n + 1 <= Len(line) THEN Len(line) - (n + 1) + 1 ELSE 0
      /\ \A i \in 1 .. Len(rest) : rest[i] = line[(n + 1) + i - 1]
  BY <1>1, Subsequence
<1>3. Number(line, n) = ExtractNum(rest)
  BY DEF Number
<1> HIDE DEF rest
<1>4. CASE Len(line) > n
  <2>1. Len(rest) \in Nat \ {0} /\ rest[1] = line[n + 1]
    BY <1>1, <1>2, <1>4
  <2>2. rest # <<>> /\ Head(rest) = rest[1]
    BY <2>1
  <2>3. IsSequence(line[n + 1])
    BY <1>1, <1>4, LinesAreSequences
  <2> QED
    BY <1>3, <1>4, <2>1, <2>2, <2>3, ParseNumTyped DEF ExtractNum
<1>5. CASE ~ Len(line) > n
  <2>1. Len(rest) = 0 /\ rest = [i \in 1 .. Len(rest) |-> rest[i]]
    BY <1>1, <1>2, <1>5 DEF IsSequence
  <2>2. rest = <<>>
    BY <2>1
  <2> QED
    BY <1>3, <1>5, <2>2 DEF ExtractNum, ParseNum
<1> QED
  BY <1>4, <1>5

(* One more line.                                                           *)
LEMMA IsSetByNext ==
    ASSUME NEW lines \in Seq(Lines), NEW line \in Lines, NEW b
    PROVE  IsSetBy(Append(lines, line), b) <=>
               ~Unsets(line, b) /\ (Sets(line, b) \/ IsSetBy(lines, b))
<1> DEFINE more == Append(lines, line)
<1>1. /\ Len(more) = Len(lines) + 1 /\ Len(lines) \in Nat
      /\ more[Len(lines) + 1] = line
      /\ \A n \in 1 .. Len(lines) : more[n] = lines[n]
  BY AppendProperties
<1> HIDE DEF more
<1>2. ASSUME IsSetBy(more, b)
      PROVE  ~Unsets(line, b) /\ (Sets(line, b) \/ IsSetBy(lines, b))
  <2>1. PICK n \in 1 .. Len(more) :
            Sets(more[n], b) /\ \A m \in n .. Len(more) : ~Unsets(more[m], b)
    BY <1>2 DEF IsSetBy
  <2>2. ~Unsets(line, b)
    BY <1>1, <2>1
  <2>3. CASE n = Len(more)
    BY <1>1, <2>1, <2>2, <2>3
  <2>4. CASE n # Len(more)
    <3>1. n \in 1 .. Len(lines) /\ Sets(lines[n], b)
      BY <1>1, <2>1, <2>4
    <3>2. \A m \in n .. Len(lines) : ~Unsets(lines[m], b)
      BY <1>1, <2>1, <2>4
    <3> QED
      BY <2>2, <3>1, <3>2 DEF IsSetBy
  <2> QED
    BY <2>3, <2>4
<1>3. ASSUME ~Unsets(line, b), Sets(line, b)
      PROVE  IsSetBy(more, b)
  <2>1. \A m \in Len(more) .. Len(more) : ~Unsets(more[m], b)
    BY <1>1, <1>3
  <2> QED
    BY <1>1, <1>3, <2>1 DEF IsSetBy
<1>4. ASSUME ~Unsets(line, b), IsSetBy(lines, b)
      PROVE  IsSetBy(more, b)
  <2>1. PICK n \in 1 .. Len(lines) :
            Sets(lines[n], b) /\ \A m \in n .. Len(lines) : ~Unsets(lines[m], b)
    BY <1>4 DEF IsSetBy
  <2>2. n \in 1 .. Len(more) /\ Sets(more[n], b)
    BY <1>1, <2>1
  <2>3. \A m \in n .. Len(more) : ~Unsets(more[m], b)
    BY <1>1, <1>4, <2>1
  <2> QED
    BY <2>2, <2>3 DEF IsSetBy
<1> QED
  BY <1>2, <1>3, <1>4 DEF more

-----------------------------------------------------------------------------
(* The inductive invariant: said is a session, and the property holds of    *)
(* every number, typed or not.                                              *)
SessionInv ==
    /\ said \in Seq(Lines)
    /\ \A b : b \in breakpoints <=> IsSetBy(said, b)

(* What a line does to the breakpoints, whichever command it is.            *)
LEMMA CommandOnBreakpoints ==
    ASSUME NEW line \in Lines, Command(line), -1 \notin breakpoints, NEW b
    PROVE  b \in breakpoints' <=>
               ~Unsets(line, b) /\ (Sets(line, b) \/ b \in breakpoints)
<1> USE DEF Sets, Unsets, Addresses, Named
<1>1. CASE Step(line) \/ Continue(line) \/ ReadMemory(line) \/ WriteMemory(line)
           \/ SetRegister(line) \/ Show(line) \/ Exit(line)
  BY <1>1 DEF Step, Continue, ReadMemory, WriteMemory, SetRegister, Show, Exit, Changing
<1>2. CASE SetBreakpoint(line)
  <2>1. Number(line, 1) = IF Len(line) > 1 THEN ParseNum(line[2]) ELSE -1
    BY <1>2, NumberOfToken DEF SetBreakpoint
  <2> QED
    BY <1>2, <2>1 DEF SetBreakpoint
<1>3. CASE Delete(line)
  <2>1. Number(line, 1) = IF Len(line) > 1 THEN ParseNum(line[2]) ELSE -1
    BY <1>3, NumberOfToken DEF Delete
  <2> QED
    BY <1>3, <2>1 DEF Delete
<1>4. CASE Clear(line)
  BY <1>4 DEF Clear
<1> QED
  BY <1>1, <1>2, <1>3, <1>4 DEF Command

(* The inductive invariant holds of every session, of any lines and any     *)
(* length (debugger.cpp:64-146).                                            *)
THEOREM SessionInvHolds == Spec => []SessionInv
<1>1. Init => SessionInv
  BY EmptySeq DEF Init, SessionInv, IsSetBy
<1>2. ASSUME SessionInv, [Next]_vars
      PROVE  SessionInv'
  <2>1. CASE UNCHANGED <<said, breakpoints>>
    BY <1>2, <2>1 DEF SessionInv
  <2>2. CASE Len(said) < Len(Typed) /\ \E line \in Typed[Len(said) + 1] : Command(line)
    <3>1. PICK line \in Typed[Len(said) + 1] : Command(line)
      BY <2>2
    <3>2. line \in Lines
      <4>1. Len(said) \in Nat /\ Len(Typed) \in Nat
        BY <1>2, TypedAssumption, LenProperties DEF SessionInv, IsSequence
      <4>2. Len(said) + 1 \in 1 .. Len(Typed)
        BY <2>2, <4>1
      <4> QED
        BY <4>2 DEF Lines
    <3>3. said' = Append(said, line)
      BY <3>1 DEF Command, Step, Continue, SetBreakpoint, Delete, Clear, ReadMemory,
                  WriteMemory, SetRegister, Show, Exit, Line
    <3>4. -1 \notin breakpoints
      BY <1>2 DEF SessionInv, IsSetBy, Sets
    <3>5. ASSUME NEW b
          PROVE  b \in breakpoints' <=> IsSetBy(said', b)
      <4>1. said \in Seq(Lines) /\ (b \in breakpoints <=> IsSetBy(said, b))
        BY <1>2 DEF SessionInv
      <4> QED
        BY <3>1, <3>2, <3>3, <3>4, <4>1, CommandOnBreakpoints, IsSetByNext
    <3>6. said' \in Seq(Lines)
      BY <1>2, <3>2, <3>3, AppendProperties DEF SessionInv
    <3> QED
      BY <3>5, <3>6 DEF SessionInv
  <2> QED
    BY <1>2, <2>1, <2>2 DEF Next, EndOfInput, Ended, vars
<1> QED
  BY <1>1, <1>2, PTL DEF Spec

(* After any session there is a breakpoint exactly at the addresses that    *)
(* the lines so far have set and not unset (cmd_break, cmd_delete and       *)
(* cmd_clear, debugger.cpp:124-146), whatever parse_num makes of a token    *)
(* but that it is -1 where there is none.                                   *)
THEOREM BreakpointsAlwaysAsTyped == Spec => []BreakpointsAsTyped
<1>1. SessionInv => BreakpointsAsTyped
  BY DEF SessionInv, BreakpointsAsTyped
<1> QED
  BY <1>1, SessionInvHolds, PTL

-----------------------------------------------------------------------------
(* What a line does to the machine                                          *)

(* A run of reads is defined, and leaves a bus that has only been read.     *)
LEMMA AfterReadsTyped ==
    ASSUME NEW b, BusTypeOK(b), NEW at \in Words, NEW bytes \in Nat
    PROVE  OnlyRead(b, AfterReads(b, at, bytes))
<1> DEFINE Next1(c, n) == Read(c, Word(at + n - 1)).bus
           Upto(f, m) == f = [n \in 0 .. m |-> IF n = 0 THEN b ELSE Next1(f[n - 1], n)]
           S == {m \in Nat : \E f : Upto(f, m)}
<1>1. 0 \in S
  <2> DEFINE f == [n \in 0 .. 0 |-> b]
  <2>1. Upto(f, 0)
    OBVIOUS
  <2> QED
    BY <2>1
<1>2. ASSUME NEW m \in Nat, m \in S
      PROVE  m + 1 \in S
  <2> HIDE DEF Next1
  <2>1. PICK f : Upto(f, m)
    BY <1>2
  <2> DEFINE last == Next1(f[m], m + 1)
             g == [n \in 0 .. m + 1 |-> IF n = m + 1 THEN last ELSE f[n]]
  <2>2. g[m + 1] = last /\ \A n \in 0 .. m : g[n] = f[n]
    <3> HIDE DEF last
    <3> QED
      OBVIOUS
  <2>3. ASSUME NEW n \in 0 .. m + 1
        PROVE  g[n] = IF n = 0 THEN b ELSE Next1(g[n - 1], n)
    <3>1. CASE n = m + 1
      <4>1. n # 0 /\ n - 1 = m /\ m \in 0 .. m
        BY <3>1
      <4> HIDE DEF g
      <4> QED
        BY <2>2, <3>1, <4>1
    <3>2. CASE n # m + 1
      <4>1. n \in 0 .. m
        BY <3>2
      <4>2. f[n] = IF n = 0 THEN b ELSE Next1(f[n - 1], n)
        BY <2>1, <4>1
      <4>3. g[n] = f[n] /\ (n # 0 => g[n - 1] = f[n - 1])
        <5> HIDE DEF g
        <5> QED
          BY <2>2, <4>1
      <4> HIDE DEF g
      <4> QED
        BY <4>2, <4>3
    <3> QED
      BY <3>1, <3>2
  <2>4. g = [n \in 0 .. m + 1 |-> g[n]]
    OBVIOUS
  <2> HIDE DEF g
  <2>5. Upto(g, m + 1)
    BY <2>3, <2>4
  <2> HIDE DEF Upto
  <2> QED
    BY <2>5
<1>3. Nat \subseteq S
  <2> HIDE DEF S
  <2> QED
    BY <1>1, <1>2, InductionOnSet
<1> DEFINE g == CHOOSE f : Upto(f, bytes)
<1>4. Upto(g, bytes)
  <2>1. \E f : Upto(f, bytes)
    BY <1>3
  <2> HIDE DEF Upto
  <2> QED
    BY <2>1
<1>5. AfterReads(b, at, bytes) = g[bytes]
  BY DEF AfterReads
<1> HIDE DEF g
<1>6. g[0] = b /\ \A n \in 1 .. bytes : g[n] = Next1(g[n - 1], n)
  <2> HIDE DEF Next1
  <2>1. \A n \in 0 .. bytes : g[n] = IF n = 0 THEN b ELSE Next1(g[n - 1], n)
    BY <1>4
  <2>2. 0 \in 0 .. bytes /\ \A n \in 1 .. bytes : n \in 0 .. bytes /\ n # 0
    OBVIOUS
  <2> QED
    BY <2>1, <2>2
<1>7. ASSUME NEW n \in 1 .. bytes, OnlyRead(b, g[n - 1])
      PROVE  OnlyRead(b, g[n])
  <2>1. BusTypeOK(g[n - 1])
    BY <1>7 DEF OnlyRead, Follows
  <2>2. Word(at + n - 1) \in Words
    <3>1. at + n - 1 \in Int
      BY WordIs
    <3> QED
      BY <3>1, Remainders
  <2>3. OnlyRead(g[n - 1], g[n])
    BY <1>6, <2>1, <2>2, ReadTyped
  <2> QED
    BY <1>7, <2>3, FollowsTransitively
<1> DEFINE T == {n \in 0 .. bytes : OnlyRead(b, g[n])}
<1>8. 0 \in T
  BY <1>6, FollowsTransitively
<1>9. \A n \in 1 .. bytes : n - 1 \in T => n \in T
  BY <1>7
<1> HIDE DEF T
<1>10. 0 .. bytes \subseteq T
  BY <1>8, <1>9, InductionUpTo
<1>11. bytes \in T
  BY <1>10
<1> QED
  BY <1>5, <1>11 DEF T

LEMMA AccessedTyped ==
    ASSUME MachineTypeOK, NEW b, BusTypeOK(b), Accessed(b), UNCHANGED todo
    PROVE  /\ MachineTypeOK' /\ cpu'.bus.ram = b.ram /\ [cpu' EXCEPT !.bus = cpu.bus] = cpu
<1>0. PICK f \in BOOLEAN : ~f
  OBVIOUS
<1> DEFINE c == [b EXCEPT !.thrown = FALSE]
<1>1. BusTypeOK(c) /\ c.ram = b.ram /\ ~c.thrown
  <2> DEFINE d == [b EXCEPT !.thrown = f]
  <2>1. c = d
    BY <1>0
  <2>2. BusTypeOK(d) /\ d.ram = b.ram /\ d.thrown = f
    BY BusWithThrown
  <2> HIDE DEF c, d
  <2> QED
    BY <1>0, <2>1, <2>2
<1>2. cpu' = WithBus(cpu, c) /\ todo' = todo
  BY DEF Accessed, WithBus
<1> HIDE DEF c
<1>3. StateTypeOK(cpu) /\ todo \in 0 .. 8
  BY DEF MachineTypeOK
<1>4. StateTypeOK(cpu') /\ cpu'.bus = c
  BY <1>1, <1>2, <1>3, WithBusTyped
<1>5. WithBus(cpu', cpu.bus) = cpu
  BY <1>2, <1>3, WithBusAgain
<1>6. MachineTypeOK'
  BY <1>1, <1>2, <1>3, <1>4 DEF MachineTypeOK
<1>7. [cpu' EXCEPT !.bus = cpu.bus] = cpu
  BY <1>5 DEF WithBus
<1> QED
  BY <1>1, <1>4, <1>6, <1>7

(* What every command keeps to: RAM changes by a complete `write` only.     *)
LEMMA CommandTyped ==
    ASSUME MachineTypeOK, NEW line \in Lines, Command(line)
    PROVE  /\ MachineTypeOK'
           /\ Writes(line) =>
                 /\ cpu'.bus.ram = Poke(cpu.bus.ram, ParseNum(line[2]) % \h800, ParseNum(line[3]) % 256)
                 /\ [cpu' EXCEPT !.bus = cpu.bus] = cpu
           /\ ~Writes(line) => cpu'.bus.ram = cpu.bus.ram
<1>1. StateTypeOK(cpu) /\ BusTypeOK(cpu.bus) /\ ~cpu.bus.thrown
  BY StateParts DEF MachineTypeOK
<1>2. /\ Number(line, 1) = IF Len(line) > 1 THEN ParseNum(line[2]) ELSE -1
      /\ Number(line, 1) \in Words \union {-1}
  <2>1. 1 \in Nat \ {0} /\ 1 + 1 = 2
    OBVIOUS
  <2> QED
    BY <2>1, NumberOfToken
<1>3. /\ Number(line, 2) = IF Len(line) > 2 THEN ParseNum(line[3]) ELSE -1
      /\ Number(line, 2) \in Words \union {-1}
  <2>1. 2 \in Nat \ {0} /\ 2 + 1 = 3
    OBVIOUS
  <2> QED
    BY <2>1, NumberOfToken
<1>4. CASE Step(line) \/ Continue(line) \/ SetBreakpoint(line) \/ Delete(line) \/ Clear(line)
           \/ Show(line) \/ Exit(line)
  <2>1. UNCHANGED <<cpu, todo>>
    BY <1>4 DEF Step, Continue, SetBreakpoint, Delete, Clear, Show, Exit, Line
  <2>2. ~Writes(line)
    BY <1>4 DEF Writes, Named, Changing, Step, Continue, SetBreakpoint, Delete, Clear, Show, Exit
  <2> QED
    BY <2>1, <2>2 DEF MachineTypeOK
<1>5. CASE ReadMemory(line)
  <2>1. ~Writes(line) /\ UNCHANGED todo
    BY <1>5 DEF Writes, Named, ReadMemory, Line
  <2>2. CASE Number(line, 1) = -1
    BY <1>5, <2>1, <2>2 DEF ReadMemory, MachineTypeOK
  <2>3. CASE Number(line, 1) # -1
    <3> DEFINE b == AfterReads(cpu.bus, Number(line, 1), BytesAsked(line))
    <3>1. BytesAsked(line) \in Nat
      BY <1>3, WordIs DEF BytesAsked
    <3>2. OnlyRead(cpu.bus, b)
      BY <1>1, <1>2, <2>3, <3>1, AfterReadsTyped
    <3>3. Accessed(b)
      BY <1>5, <2>3 DEF ReadMemory
    <3> HIDE DEF b
    <3>4. BusTypeOK(b) /\ b.ram = cpu.bus.ram
      BY <3>2 DEF OnlyRead, Follows
    <3> QED
      BY <2>1, <3>3, <3>4, AccessedTyped
  <2> QED
    BY <2>2, <2>3
<1>6. CASE WriteMemory(line)
  <2>1. UNCHANGED todo /\ Named(line, {"write", "w"})
    BY <1>6 DEF WriteMemory, Line
  <2>2. CASE -1 \in {Number(line, 1), Number(line, 2)}
    <3>1. ~Writes(line)
      <4>1. ASSUME Writes(line) PROVE FALSE
        <5>1. Len(line) > 2 /\ ParseNum(line[2]) # -1 /\ ParseNum(line[3]) # -1
          BY <4>1 DEF Writes, Between
        <5>2. Len(line) > 1
          BY <5>1, LinesAreSequences, SequenceIs
        <5> QED
          BY <1>2, <1>3, <2>2, <5>1, <5>2
      <4> QED
        BY <4>1
    <3> QED
      BY <1>6, <2>1, <2>2, <3>1 DEF WriteMemory, MachineTypeOK
  <2>3. CASE ~(-1 \in {Number(line, 1), Number(line, 2)})
    <3> DEFINE v == Number(line, 2) % 256
               a == Number(line, 1)
               b == Write(cpu.bus, a, v).bus
    <3>1. Accessed(b)
      BY <1>6, <2>3 DEF WriteMemory
    <3>2. a \in Words /\ v \in Byte /\ a \in Int
      BY <1>2, <1>3, <2>3, WordIs, Remainders
    <3>3. Len(line) > 2 /\ Len(line) > 1 /\ a = ParseNum(line[2]) /\ v = ParseNum(line[3]) % 256
          /\ ParseNum(line[3]) # -1
      BY <1>2, <1>3, <2>3, LinesAreSequences, SequenceIs
    <3>4. Writes(line) <=> a < \h2000
      <4>1. 0 <= a
        BY <3>2, WordIs
      <4> HIDE DEF a
      <4>2. Between(0, a, 8191) <=> a < \h2000
        BY <3>2, <4>1 DEF Between
      <4> QED
        BY <2>1, <3>3, <4>2 DEF Writes
    <3>5. Follows(cpu.bus, b)
      BY <1>1, <3>2, WriteTyped
    <3>6. a < \h2000 => b.ram = Poke(cpu.bus.ram, a % \h800, v)
      BY <1>1, <3>2, WriteTyped
    <3>7. ~(a < \h2000) => b.ram = cpu.bus.ram
      <4>1. ~(a < \h2000) => a >= \h2000
        BY <3>2
      <4> QED
        BY <1>1, <3>2, <4>1, WriteTyped
    <3> HIDE DEF a, v, b
    <3>8. BusTypeOK(b)
      BY <3>5 DEF Follows
    <3>9. MachineTypeOK' /\ cpu'.bus.ram = b.ram /\ [cpu' EXCEPT !.bus = cpu.bus] = cpu
      BY <2>1, <3>1, <3>8, AccessedTyped
    <3> QED
      BY <3>3, <3>4, <3>6, <3>7, <3>9
  <2> QED
    BY <2>2, <2>3
<1>7. CASE SetRegister(line)
  <2>1. ~Writes(line) /\ UNCHANGED todo
    BY <1>7 DEF Writes, Named, SetRegister, Line
  <2>2. CASE cpu' = cpu
    BY <2>1, <2>2 DEF MachineTypeOK
  <2>3. CASE cpu' # cpu
    <3>1. /\ Number(line, 2) # -1 /\ line[2] \in DOMAIN Register
          /\ cpu' = WithRegister(Register[line[2]], Number(line, 2))
      BY <1>7, <2>3 DEF SetRegister
    <3>2. \A n \in DOMAIN Register : Register[n] \in {"pc", "sp", "a", "x", "y", "p"}
      BY DEF Register
    <3>3. Number(line, 2) \in Words
      BY <1>3, <3>1
    <3>4. Register[line[2]] \in {"pc", "sp", "a", "x", "y", "p"}
      BY <3>1, <3>2
    <3> DEFINE reg == Register[line[2]]
               w == Number(line, 2)
    <3> HIDE DEF reg, w
    <3>5. StateTypeOK(WithRegister(reg, w)) /\ WithRegister(reg, w).bus = cpu.bus
      BY <1>1, <3>3, <3>4, WithRegisterTyped DEF reg, w
    <3>6. StateTypeOK(cpu') /\ cpu'.bus = cpu.bus
      BY <3>1, <3>5 DEF reg, w
    <3> QED
      BY <2>1, <3>6 DEF MachineTypeOK
  <2> QED
    BY <2>2, <2>3
<1> QED
  BY <1>4, <1>5, <1>6, <1>7 DEF Command

(* The last line, and what came before it.                                  *)
LEMMA StepSays ==
    ASSUME SessionInv, Next
    PROVE  \/ UNCHANGED <<said, cpu, todo>>
           \/ \E line \in Lines : Command(line) /\ said' # said /\ said'[Len(said')] = line
<1>1. CASE EndOfInput \/ Ended
  BY <1>1 DEF EndOfInput, Ended, vars
<1>2. CASE Len(said) < Len(Typed) /\ \E line \in Typed[Len(said) + 1] : Command(line)
  <2>1. PICK line \in Typed[Len(said) + 1] : Command(line)
    BY <1>2
  <2>2. said \in Seq(Lines) /\ Len(said) \in Nat /\ Len(Typed) \in Nat
    BY TypedAssumption, LenProperties DEF SessionInv, IsSequence
  <2>3. Len(said) + 1 \in 1 .. Len(Typed)
    BY <1>2, <2>2
  <2>4. line \in Lines
    BY <2>3 DEF Lines
  <2>5. said' = Append(said, line)
    BY <2>1 DEF Command, Step, Continue, SetBreakpoint, Delete, Clear, ReadMemory,
                WriteMemory, SetRegister, Show, Exit, Line
  <2>6. Len(said') = Len(said) + 1 /\ said'[Len(said) + 1] = line
    BY <2>2, <2>4, <2>5, AppendProperties
  <2>7. said' # said
    BY <2>2, <2>6
  <2> QED
    BY <2>1, <2>4, <2>6, <2>7
<1> QED
  BY <1>1, <1>2 DEF Next

(* At the prompt the machine stays a machine, whatever is typed: a number   *)
(* of sixteen bits is cut to a register's or a byte's width, and an         *)
(* exception of the cartridge does not stay (debugger.cpp:149-206).         *)
THEOREM PromptKeepsTypes == Spec => []MachineTypeOK
<1>1. Init => MachineTypeOK
  <2> SUFFICES ASSUME Init PROVE MachineTypeOK
    OBVIOUS
  <2>1. PICK bus \in Buses : cpu = PowerOn(bus)
    BY DEF Init
  <2>2. BusTypeOK(bus) /\ ~bus.thrown
    BY BusesAssumption
  <2> QED
    BY <2>1, <2>2, PoweredOnTyped DEF Init, MachineTypeOK
<1>2. SessionInv /\ MachineTypeOK /\ [Next]_vars => MachineTypeOK'
  <2> SUFFICES ASSUME SessionInv, MachineTypeOK, [Next]_vars PROVE MachineTypeOK'
    OBVIOUS
  <2>1. CASE UNCHANGED <<cpu, todo>>
    BY <2>1 DEF MachineTypeOK
  <2>2. CASE Next
    BY <2>1, <2>2, StepSays, CommandTyped
  <2> QED
    BY <2>1, <2>2 DEF vars
<1> QED
  BY <1>1, <1>2, SessionInvHolds, PTL DEF Spec

(* A complete `write` to RAM changes one cell, to the low byte of what was  *)
(* typed, at all its mirrors; no other line changes any cell                *)
(* (debugger.cpp:176, memory.cpp:17).                                       *)
THEOREM WritesChangeOneByte == Spec => WriteChangesOneByte
<1>1. ASSUME SessionInv, MachineTypeOK, MachineTypeOK', [Next]_vars, said' # said
      PROVE  LET line == said'[Len(said')]
                 hit  == IF Writes(line) THEN {ParseNum(line[2]) % 2048} ELSE {}
             IN  /\ \A a \in hit : RamAt(a)' = ParseNum(line[3]) % 256
                 /\ \A a \in (DOMAIN cpu.bus.ram \union DOMAIN cpu'.bus.ram) \ hit :
                        RamAt(a)' = RamAt(a)
                 /\ hit # {} => [cpu' EXCEPT !.bus = cpu.bus] = cpu
  <2> DEFINE line == said'[Len(said')]
             c == ParseNum(line[2]) % 2048
             v == ParseNum(line[3]) % 256
             old == cpu.bus.ram
             new == cpu'.bus.ram
  <2>1. Command(line) /\ line \in Lines
    BY <1>1, StepSays DEF vars
  <2> HIDE DEF line
  <2>2. /\ Writes(line) => new = Poke(old, c, v) /\ [cpu' EXCEPT !.bus = cpu.bus] = cpu
        /\ ~Writes(line) => new = old
    BY <1>1, <2>1, CommandTyped
  <2>3. SparseTypeOK(old, \h800) /\ SparseTypeOK(new, \h800)
    BY <1>1, StateParts DEF MachineTypeOK, StateTypeOK, BusTypeOK
  <2>4. \A a \in DOMAIN old \union DOMAIN new : a % 2048 = a
    <3>1. \A a \in DOMAIN old \union DOMAIN new : a \in Nat /\ a < 2048
      BY <2>3 DEF SparseTypeOK
    <3> QED
      BY <3>1
  <2>5. \A a : RamAt(a) = Peek(old, a % 2048) /\ RamAt(a)' = Peek(new, a % 2048)
    BY DEF RamAt
  <2>6. CASE Writes(line)
    <3>1. Len(line) > 2 /\ Between(0, ParseNum(line[2]), 8191) /\ ParseNum(line[3]) # -1
      BY <2>6 DEF Writes
    <3>2. IsSequence(line[2]) /\ IsSequence(line[3])
      <4>1. 2 \in 2 .. Len(line) /\ 3 \in 2 .. Len(line)
        BY <2>1, <3>1, LinesAreSequences, SequenceIs
      <4> QED
        BY <2>1, <4>1, LinesAreSequences
    <3>9. ParseNum(line[3]) \in Int /\ ParseNum(line[2]) \in Int
      <4>1. \A n \in Words \union {-1} : n \in Int
        BY WordIs
      <4> QED
        BY <3>2, <4>1, ParseNumTyped
    <3>10. ParseNum(line[2]) \in Nat
      BY <3>1, <3>9 DEF Between
    <3>3. v \in Byte
      BY <3>9, Remainders
    <3>4. c \in Nat /\ c < 2048 /\ c % 2048 = c
      BY <3>10
    <3> HIDE DEF c, v
    <3>5. Peek(new, c) = v /\ \A d : d # c => Peek(new, d) = Peek(old, d)
      <4>1. new = Poke(old, c, v)
        BY <2>2, <2>6
      <4> HIDE DEF new, old
      <4> QED
        BY <2>3, <3>3, <3>4, <4>1, PokeTyped
    <3> HIDE DEF new, old
    <3>6. \A a \in {c} : RamAt(a)' = v
      BY <2>5, <3>4, <3>5
    <3>7. \A a \in (DOMAIN old \union DOMAIN new) \ {c} : RamAt(a)' = RamAt(a)
      BY <2>4, <2>5, <3>5
    <3> QED
      BY <2>2, <2>6, <3>6, <3>7 DEF line, c, v, old, new
  <2>7. CASE ~Writes(line)
    <3>1. \A a : RamAt(a)' = RamAt(a)
      BY <2>2, <2>5, <2>7
    <3> QED
      BY <2>7, <3>1 DEF line
  <2> QED
    BY <2>6, <2>7
<1> QED
  BY <1>1, SessionInvHolds, PromptKeepsTypes, PTL DEF Spec, WriteChangesOneByte

(* Every token in one of the formats parse_num names stands for the number  *)
(* whose numeral it is, and no token for more than fits in 16 bits          *)
(* (util.hpp:25-32, parsing.cpp:44), whatever the lines.                    *)
THEOREM NumbersAlwaysAsWritten == Spec => []NumbersAsWritten
<1>1. SessionInv => NumbersAsWritten
  <2> SUFFICES ASSUME SessionInv, NEW s \in Tokens
               PROVE  /\ Between(-1, ParseNum(s), MaxWord)
                      /\ HexFormat(s) => HexNumeral(ParseNum(s), Len(s) - 1) = InCapitals(Tail(s))
                      /\ DecFormat(s) => DecNumeral(ParseNum(s), Len(s)) = s
    BY DEF NumbersAsWritten
  <2>1. IsSequence(s)
    <3>1. PICK n \in 1 .. Len(said) : \E j \in 2 .. Len(said[n]) : s = said[n][j]
      BY DEF Tokens
    <3>2. said[n] \in Lines
      BY ElementOfSeq DEF SessionInv
    <3> QED
      BY <3>1, <3>2, LinesAreSequences
  <2>2. Between(-1, ParseNum(s), MaxWord)
    <3>1. ParseNum(s) \in Words \union {-1}
      BY <2>1, ParseNumTyped
    <3>2. MaxWord = 65535
      BY DEF MaxWord
    <3> QED
      BY <3>1, <3>2, WordIs DEF Between
  <2> QED
    BY <2>1, <2>2, HexAsWritten, DecAsWritten
<1> QED
  BY <1>1, SessionInvHolds, PTL
=============================================================================
