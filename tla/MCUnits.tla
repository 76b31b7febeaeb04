------------------------------ MODULE MCUnits ------------------------------
(***************************************************************************)
(* The tests of app/test-cpu.cpp, all of them, and programs that throw.     *)
(***************************************************************************)
EXTENDS Units, UnitsArithmetic, UnitsLogic, UnitsMoves, UnitsFlow

Arithmetic ==
    Unit_ADC_IMM \union Unit_ADC_ZP \union Unit_ADC_ZPX \union Unit_ADC_ABS
    \union Unit_ADC_ABSX \union Unit_ADC_ABSY \union Unit_ADC_INDX \union Unit_ADC_INDY
    \union Unit_CMP_IMM \union Unit_CMP_ZP \union Unit_CMP_ZPX \union Unit_CMP_ABS
    \union Unit_CMP_ABSX \union Unit_CMP_ABSY \union Unit_CMP_INDX \union Unit_CMP_INDY
    \union Unit_CPX_IMM \union Unit_CPX_ZP \union Unit_CPX_ABS \union Unit_CPY_IMM
    \union Unit_CPY_ZP \union Unit_CPY_ABS \union Unit_DEC_ZP \union Unit_DEC_ZPX
    \union Unit_DEC_ABS \union Unit_DEC_ABSX \union Unit_DEX \union Unit_DEY
    \union Unit_INC_ZP \union Unit_INC_ZPX \union Unit_INC_ABS \union Unit_INC_ABSX
    \union Unit_INX \union Unit_INY \union Unit_SBC_IMM \union Unit_SBC_ZP
    \union Unit_SBC_ZPX \union Unit_SBC_ABS \union Unit_SBC_ABSX \union Unit_SBC_ABSY
    \union Unit_SBC_INDX \union Unit_SBC_INDY

Logic ==
    Unit_AND_IMM \union Unit_AND_ZP \union Unit_AND_ZPX \union Unit_AND_ABS
    \union Unit_AND_ABSX \union Unit_AND_ABSY \union Unit_AND_INDX \union Unit_AND_INDY
    \union Unit_ASL_A \union Unit_ASL_ZP \union Unit_ASL_ZPX \union Unit_ASL_ABS
    \union Unit_ASL_ABSX \union Unit_BIT_ZP \union Unit_BIT_ABS \union Unit_CLC
    \union Unit_CLD \union Unit_CLI \union Unit_CLV \union Unit_EOR_IMM
    \union Unit_EOR_ZP \union Unit_EOR_ZPX \union Unit_EOR_ABS \union Unit_EOR_ABSX
    \union Unit_EOR_ABSY \union Unit_EOR_INDX \union Unit_EOR_INDY \union Unit_LSR_A
    \union Unit_LSR_ZP \union Unit_LSR_ZPX \union Unit_LSR_ABS \union Unit_LSR_ABSX
    \union Unit_ORA_IMM \union Unit_ORA_ZP \union Unit_ORA_ZPX \union Unit_ORA_ABS
    \union Unit_ORA_ABSX \union Unit_ORA_ABSY \union Unit_ORA_INDX \union Unit_ORA_INDY
    \union Unit_ROL_A \union Unit_ROL_ZP \union Unit_ROL_ZPX \union Unit_ROL_ABS
    \union Unit_ROL_ABSX \union Unit_ROR_A \union Unit_ROR_ZP \union Unit_ROR_ZPX
    \union Unit_ROR_ABS \union Unit_ROR_ABSX \union Unit_SEC \union Unit_SED
    \union Unit_SEI

Moves ==
    trivial_load_and_store \union trivial_memory \union Unit_LDA_IMM \union Unit_LDA_ZP
    \union Unit_LDA_ZPX \union Unit_LDA_ABS \union Unit_LDA_ABSX \union Unit_LDA_ABSY
    \union Unit_LDA_INDX \union Unit_LDA_INDY \union Unit_LDX_IMM \union Unit_LDX_ZP
    \union Unit_LDX_ZPY \union Unit_LDX_ABS \union Unit_LDX_ABSY \union Unit_LDY_IMM
    \union Unit_LDY_ZP \union Unit_LDY_ZPX \union Unit_LDY_ABS \union Unit_LDY_ABSX
    \union Unit_TAX \union Unit_TAY \union Unit_TSX \union Unit_TXA \union Unit_TXS
    \union Unit_TYA

StoreTests ==
    Unit_STA_ZP \union Unit_STA_ZPX \union Unit_STA_ABS \union Unit_STA_ABSX
    \union Unit_STA_ABSY \union Unit_STA_INDX \union Unit_STA_INDY \union Unit_STX_ZP
    \union Unit_STX_ZPY \union Unit_STX_ABS \union Unit_STY_ZP \union Unit_STY_ZPX
    \union Unit_STY_ABS

Flow ==
    Unit_BCC_REL \union Unit_BCS_REL \union Unit_BEQ_REL \union Unit_BMI_REL
    \union Unit_BNE_REL \union Unit_BPL_REL \union Unit_BRK \union Unit_BVC_REL
    \union Unit_BVS_REL \union Unit_JMP_ABS \union Unit_JMP_IND \union Unit_JSR_ABS
    \union Unit_NOP \union Unit_PHA \union Unit_PHP \union Unit_PLA \union Unit_PLP
    \union Unit_RTI \union Unit_RTS \union instruction_printer

-----------------------------------------------------------------------------
(* Programs in 32 kB of Mapper0 that do not come to an end: their handler,  *)
(* or what is not one, is where the vector points.                          *)
Endless(bytes, nmi) ==
    [cart |-> Mapper0(2, [i \in (0 .. Len(bytes) - 1) \union (\h7FFA .. \h7FFF) |->
                            CASE i < Len(bytes) -> bytes[i + 1]
                              [] i = \h7FFA -> Lo(nmi)
                              [] i = \h7FFB -> Hi(nmi)
                              [] i \in {\h7FFC, \h7FFE} -> 0
                              [] OTHER -> \h80]),
     script |-> <<Cycles(40)>>]

Counting == <<k.LDX.IMM, 2, k.DEX.IMPL, k.BNE.REL, \hFD, k.JMP.ABS, 5, \h80>>

\* SP_ wraps around below 0, X_ below 0.
Wrapping == <<k.LDX.IMM, 0, k.TXS.IMPL, k.PHA.IMPL, k.DEX.IMPL, k.JMP.ABS, 5, \h80>>

\* 0x02 is no opcode.
Invalid02 == <<k.LDA.IMM, 1, \h02, k.NOP.IMPL>>

\* Mapper0 throws below 0x6000: for reads, for the write of a store, through a pointer.
Reading  == <<k.LDA.IMM, \h50, k.STA.ZP, 1, k.LDX.IMM, 0, k.LDA.INDX, 0>>
Writing  == <<k.LDA.IMM, 7, k.STA.ABS, 0, \h50>>
Changing == <<k.JSR.ABS, 3, \h80, k.INC.ABS, 0, \h50>>
Escaping == <<k.LDX.IMM, 9, k.JMP.ABS, 0, \h50>>

\* What reads and then sets registers: flags that a throw must find as they were.
Rotating   == <<k.SEC.IMPL, k.ROL.ABS, 0, \h50>>
Loading    == <<k.LDY.IMM, 8, k.LDY.ABS, 0, \h50>>
Adding     == <<k.SEC.IMPL, k.ADC.ABS, 0, \h50>>
Comparing  == <<k.SEC.IMPL, k.CMP.ABS, 0, \h50>>
Redirected == <<k.LDX.IMM, 9, k.JMP.IND, 0, \h50>>

\* Pulled out of page 1's RAM, RTS leads to 0x5001, RTI to 0x5000.
Returning == <<k.LDA.IMM, \h50, k.PHA.IMPL, k.LDA.IMM, 0, k.PHA.IMPL, k.PHP.IMPL, k.RTI.IMPL>>

EndlessTests ==
    {Endless(bytes, HandlerAt) : bytes \in {Counting, Wrapping, Invalid02, Reading, Writing,
                                           Changing, Escaping, Rotating, Loading, Adding,
                                           Comparing, Redirected, Returning}}
    \union {Endless(Counting, nmi) : nmi \in {\h8001, \h5000}}

-----------------------------------------------------------------------------
AllTests == Arithmetic \union Logic \union Moves \union Flow \union StoreTests \union EndlessTests

\* 0x01FE and 0x01 in the zero page: the page ends at 0x01FF.
Indexing ==
    <<k.LDA.IMM, \hFE, k.STA.ZP, \h20, k.LDA.IMM, 1, k.STA.ZP, \h21, k.LDY.IMM, 1,
      k.LDA.INDY, \h20, k.INY.IMPL, k.LDA.INDY, \h20, k.JMP.ABS, 0, \h80>>

(* The program indexes 0x01FE by 1, which stays in the page, and by 2.      *)
IndirectTests ==
    Unit_LDA_INDY \union Unit_ADC_INDY \union {Endless(Indexing, HandlerAt)}
=============================================================================
