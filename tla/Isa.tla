-------------------------------- MODULE Isa --------------------------------
(***************************************************************************)
(* The instruction set as the tables of the program give it: the opcodes   *)
(* (include/cpu.hpp, enum OpCode), the addressing mode, length and cycles  *)
(* of each (lib/cpu/instruction_meta.cpp, lib/cpu/alu.cpp).  kADC_ABSX is  *)
(* k.ADC.ABSX here, and a name without a suffix has the mode IMPL.         *)
(***************************************************************************)
EXTENDS Integers

k ==
    [ADC |-> [IMM |-> \h69, ZP |-> \h65, ZPX |-> \h75, ABS |-> \h6D, ABSX |-> \h7D,
             ABSY |-> \h79, INDX |-> \h61, INDY |-> \h71],
     AND |-> [IMM |-> \h29, ZP |-> \h25, ZPX |-> \h35, ABS |-> \h2D, ABSX |-> \h3D,
             ABSY |-> \h39, INDX |-> \h21, INDY |-> \h31],
     ASL |-> [A |-> \h0A, ZP |-> \h06, ZPX |-> \h16, ABS |-> \h0E, ABSX |-> \h1E],
     BIT |-> [ZP |-> \h24, ABS |-> \h2C],
     CMP |-> [IMM |-> \hC9, ZP |-> \hC5, ZPX |-> \hD5, ABS |-> \hCD, ABSX |-> \hDD,
             ABSY |-> \hD9, INDX |-> \hC1, INDY |-> \hD1],
     CPX |-> [IMM |-> \hE0, ZP |-> \hE4, ABS |-> \hEC],
     CPY |-> [IMM |-> \hC0, ZP |-> \hC4, ABS |-> \hCC],
     DEC |-> [ZP |-> \hC6, ZPX |-> \hD6, ABS |-> \hCE, ABSX |-> \hDE],
     EOR |-> [IMM |-> \h49, ZP |-> \h45, ZPX |-> \h55, ABS |-> \h4D, ABSX |-> \h5D,
             ABSY |-> \h59, INDX |-> \h41, INDY |-> \h51],
     INC |-> [ZP |-> \hE6, ZPX |-> \hF6, ABS |-> \hEE, ABSX |-> \hFE],
     JMP |-> [ABS |-> \h4C, IND |-> \h6C],
     LDA |-> [IMM |-> \hA9, ZP |-> \hA5, ZPX |-> \hB5, ABS |-> \hAD, ABSX |-> \hBD,
             ABSY |-> \hB9, INDX |-> \hA1, INDY |-> \hB1],
     LDX |-> [IMM |-> \hA2, ZP |-> \hA6, ZPY |-> \hB6, ABS |-> \hAE, ABSY |-> \hBE],
     LDY |-> [IMM |-> \hA0, ZP |-> \hA4, ZPX |-> \hB4, ABS |-> \hAC, ABSX |-> \hBC],
     LSR |-> [A |-> \h4A, ZP |-> \h46, ZPX |-> \h56, ABS |-> \h4E, ABSX |-> \h5E],
     ORA |-> [IMM |-> \h09, ZP |-> \h05, ZPX |-> \h15, ABS |-> \h0D, ABSX |-> \h1D,
             ABSY |-> \h19, INDX |-> \h01, INDY |-> \h11],
     ROL |-> [A |-> \h2A, ZP |-> \h26, ZPX |-> \h36, ABS |-> \h2E, ABSX |-> \h3E],
     ROR |-> [A |-> \h6A, ZP |-> \h66, ZPX |-> \h76, ABS |-> \h6E, ABSX |-> \h7E],
     SBC |-> [IMM |-> \hE9, ZP |-> \hE5, ZPX |-> \hF5, ABS |-> \hED, ABSX |-> \hFD,
             ABSY |-> \hF9, INDX |-> \hE1, INDY |-> \hF1],
     STA |-> [ZP |-> \h85, ZPX |-> \h95, ABS |-> \h8D, ABSX |-> \h9D, ABSY |-> \h99,
             INDX |-> \h81, INDY |-> \h91],
     STX |-> [ZP |-> \h86, ZPY |-> \h96, ABS |-> \h8E],
     STY |-> [ZP |-> \h84, ZPX |-> \h94, ABS |-> \h8C],
     BCC |-> [REL |-> \h90], BCS |-> [REL |-> \hB0], BEQ |-> [REL |-> \hF0],
     BMI |-> [REL |-> \h30], BNE |-> [REL |-> \hD0], BPL |-> [REL |-> \h10],
     BRK |-> [IMPL |-> \h00], BVC |-> [REL |-> \h50], BVS |-> [REL |-> \h70],
     CLC |-> [IMPL |-> \h18], CLD |-> [IMPL |-> \hD8], CLI |-> [IMPL |-> \h58],
     CLV |-> [IMPL |-> \hB8], DEX |-> [IMPL |-> \hCA], DEY |-> [IMPL |-> \h88],
     INX |-> [IMPL |-> \hE8], INY |-> [IMPL |-> \hC8], JSR |-> [ABS |-> \h20],
     NOP |-> [IMPL |-> \hEA], PHA |-> [IMPL |-> \h48], PHP |-> [IMPL |-> \h08],
     PLA |-> [IMPL |-> \h68], PLP |-> [IMPL |-> \h28], RTI |-> [IMPL |-> \h40],
     RTS |-> [IMPL |-> \h60], SEC |-> [IMPL |-> \h38], SED |-> [IMPL |-> \hF8],
     SEI |-> [IMPL |-> \h78], TAX |-> [IMPL |-> \hAA], TAY |-> [IMPL |-> \hA8],
     TSX |-> [IMPL |-> \hBA], TXA |-> [IMPL |-> \h8A], TXS |-> [IMPL |-> \h9A],
     TYA |-> [IMPL |-> \h98]]

Instructions ==
    UNION {{[code |-> k[o][m], op |-> o, mode |-> m] : m \in DOMAIN k[o]} : o \in DOMAIN k}

Valid == {i.code : i \in Instructions}

\* instruction_names and instruction_addr_modes, as a table over the opcodes.
Decoded == [c \in Valid |-> CHOOSE i \in Instructions : i.code = c]

\* make_instruction_sizes
Size == [IMPL |-> 1, A |-> 1, IMM |-> 2, REL |-> 2, ZP |-> 2, ZPX |-> 2, ZPY |-> 2,
         INDX |-> 2, INDY |-> 2, ABS |-> 3, ABSX |-> 3, ABSY |-> 3, IND |-> 3]

-----------------------------------------------------------------------------
(* cycle_count, but for the cycle that crossing a page adds                 *)
Reads    == {"ADC", "AND", "BIT", "CMP", "CPX", "CPY", "EOR", "LDA", "LDX", "LDY", "ORA", "SBC"}
Stores   == {"STA", "STX", "STY"}
Modifies == {"ASL", "DEC", "INC", "LSR", "ROL", "ROR"}

ReadCycles == [IMM |-> 2, ZP |-> 3, ZPX |-> 4, ZPY |-> 4, ABS |-> 4, ABSX |-> 4,
               ABSY |-> 4, INDX |-> 6, INDY |-> 5]

StoreCycles == [ZP |-> 3, ZPX |-> 4, ZPY |-> 4, ABS |-> 4, ABSX |-> 5, ABSY |-> 5,
                INDX |-> 6, INDY |-> 6]

ModifyCycles == [A |-> 2, ZP |-> 5, ZPX |-> 6, ABS |-> 6, ABSX |-> 7]

JumpCycles(i) == IF i.op = "JSR" THEN 6 ELSE IF i.mode = "ABS" THEN 3 ELSE 5

StackCycles(op) ==
    CASE op = "BRK" -> 7
      [] op \in {"RTI", "RTS"} -> 6
      [] op \in {"PLA", "PLP"} -> 4
      [] op \in {"PHA", "PHP"} -> 3

BaseCycles(i) ==
    CASE i.op \in Reads -> ReadCycles[i.mode]
      [] i.op \in Stores -> StoreCycles[i.mode]
      [] i.op \in Modifies -> ModifyCycles[i.mode]
      [] i.op \in {"JMP", "JSR"} -> JumpCycles(i)
      [] i.op \in {"BRK", "RTI", "RTS", "PLA", "PLP", "PHA", "PHP"} -> StackCycles(i.op)
      [] OTHER -> 2

\* The opcodes whose page crossing costs a cycle.
Crosses(i) == i.op \in Reads /\ i.mode \in {"ABSX", "ABSY", "INDY"}
=============================================================================
