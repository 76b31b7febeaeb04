------------------------------ MODULE Cartridge ------------------------------
(***************************************************************************)
(* The constructor of Cartridge from a file (lib/cartridge/cartridge.cpp): *)
(* its reads of the stream, one after the other.  A file is a record:      *)
(* magic, whether it begins with the four bytes of an iNES ROM; the        *)
(* header's bytes 4 to 7, prg, chr, flags6, flags7; size, the number of    *)
(* its bytes; and data, what it holds after the header, a function on the  *)
(* offsets of the bytes that are not filler.  CHR is read and never used.  *)
(***************************************************************************)
EXTENDS Mapper

CONSTANT Files   \* the files it may be given

\* A header has bytes, and says that there is a program.
ASSUME FilesAssumption ==
    \A f \in Files :
        /\ {f.prg, f.chr, f.flags6, f.flags7} \subseteq 0 .. 255
        /\ f.prg > 0
        /\ f.magic \in BOOLEAN
        /\ f.size \in Nat
        /\ \A i \in DOMAIN f.data : i \in Nat /\ f.data[i] \in 0 .. 255

VARIABLES
    file,     \* the file
    in,       \* the stream: the bytes read of it, and whether all reads succeeded
    prg_rom,  \* what was read as PRG
    stage     \* what is read next; "mapper" after that; at last "ready" or "failed"

cartridgeVars == <<file, in, prg_rom, stage>>

HeaderSize  == 16
TrainerSize == 512
ChrBank     == 8 * 1024

CartridgeInit ==
    /\ file \in Files
    /\ in = [at |-> 0, good |-> TRUE]
    /\ prg_rom = Blank
    /\ stage = "header"

(* in.read: a read fails when the file ends within it, and every read after *)
(* one that failed does.                                                    *)
AfterRead(n) ==
    IF in.good /\ in.at + n <= file.size THEN [in EXCEPT !.at = @ + n] ELSE [in EXCEPT !.good = FALSE]

\* The n bytes that a read would yield.
Ahead(n) ==
    LET from == in.at - HeaderSize
    IN  [i \in {j - from : j \in DOMAIN file.data} \cap 0 .. (n - 1) |-> file.data[i + from]]

HasTrainer == (file.flags6 \div 4) % 2 = 1

ReadHeader ==
    /\ stage = "header"
    /\ in' = AfterRead(HeaderSize)
    /\ stage' = IF ~in'.good \/ ~file.magic THEN "failed"
                ELSE IF HasTrainer THEN "trainer" ELSE "prg"
    /\ UNCHANGED <<file, prg_rom>>

\* Whether this read fails is not looked at.
ReadTrainer ==
    /\ stage = "trainer"
    /\ in' = AfterRead(TrainerSize)
    /\ stage' = "prg"
    /\ UNCHANGED <<file, prg_rom>>

ReadPrg ==
    /\ stage = "prg"
    /\ in' = AfterRead(file.prg * Bank)
    /\ IF in'.good THEN prg_rom' = Ahead(file.prg * Bank) /\ stage' = "chr"
                   ELSE stage' = "failed" /\ UNCHANGED prg_rom
    /\ UNCHANGED file

\* Mutant of ReadChr: no more looked at than the trainer's.
ReadChrUnchecked ==
    /\ stage = "chr"
    /\ in' = AfterRead(file.chr * ChrBank)
    /\ stage' = "mapper"
    /\ UNCHANGED <<file, prg_rom>>

ReadChr ==
    /\ stage = "chr"
    /\ in' = AfterRead(file.chr * ChrBank)
    /\ stage' = IF in'.good THEN "mapper" ELSE "failed"
    /\ UNCHANGED <<file, prg_rom>>

(* `||` and `&&` make a truth value of the number: it is 0 if the upper     *)
(* half of byte 6 is, and the whole of byte 7.                              *)
MapperNumber == IF file.flags6 >= 16 \/ file.flags7 # 0 THEN 1 ELSE 0

ChooseMapper ==
    /\ stage = "mapper"
    /\ stage' = IF MapperNumber = 0 THEN "ready" ELSE "failed"
    /\ UNCHANGED <<file, in, prg_rom>>

CartridgeNext == ReadHeader \/ ReadTrainer \/ ReadPrg \/ ReadChr \/ ChooseMapper

-----------------------------------------------------------------------------
(* What a file has to be: whole, as long as its header says it is, and for  *)
(* the one mapper there is.                                                 *)
Trainer   == IF (file.flags6 \div 4) % 2 = 1 THEN 512 ELSE 0
WholeFile == file.size >= 16 + Trainer + 16384 * file.prg + 8192 * file.chr
GoodFile  == file.magic /\ WholeFile /\ file.flags6 < 16 /\ file.flags7 = 0

\* PRG is the bytes of the file that come after header and trainer, no less and no more.
PrgOfFile ==
    /\ \A j \in DOMAIN file.data :
          j - Trainer \in 0 .. (16384 * file.prg - 1) =>
              j - Trainer \in DOMAIN prg_rom /\ prg_rom[j - Trainer] = file.data[j]
    /\ \A i \in DOMAIN prg_rom : i + Trainer \in DOMAIN file.data

(* The constructor's reads, the unchecked one of the trainer among them,    *)
(* end in an exception for every file that is not good, wherever it is cut  *)
(* short, and for no other; and what is left as PRG when all is read is the *)
(* file's (cartridge.cpp:67-110).                                           *)
FilesJudged ==
    /\ stage = "mapper" => PrgOfFile
    /\ stage = "ready" => GoodFile
    /\ stage = "failed" => ~GoodFile
=============================================================================
