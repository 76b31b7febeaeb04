-------------------------- MODULE UnitsArithmetic --------------------------
(***************************************************************************)
(* The unit tests (app/test-cpu.cpp) of                                    *)
(* addition, subtraction, comparison and counting.                         *)
(* A TEST_CASE is the set of tests that its sections, or the values it     *)
(* generates, make.                                                        *)
(***************************************************************************)
EXTENDS Isa, Script

Unit_ADC_IMM ==
    {Test(<<k.LDA.IMM, 1, k.ADC.IMM, 1>>,
          <<Is([a |-> 0, C |-> FALSE, Z |-> FALSE, N |-> FALSE, V |-> FALSE]), Cycles(2),
            Is([a |-> 1]), Cycles(2),
            Is([a |-> 2, C |-> FALSE, Z |-> FALSE, N |-> FALSE, V |-> FALSE])>>),
     Test(<<k.LDA.IMM, \hFF, k.ADC.IMM, 1>>,
          <<Is([pc |-> \h8000, a |-> 0, C |-> FALSE, Z |-> FALSE, N |-> FALSE, V |-> FALSE]),
            Cycles(2), Is([a |-> \hFF]), Cycles(2),
            Is([a |-> 0, C |-> TRUE, Z |-> TRUE, N |-> FALSE, V |-> FALSE])>>),
     Test(<<k.LDA.IMM, \hFB, k.ADC.IMM, \hF6>>,
          <<Is([pc |-> \h8000, a |-> 0, C |-> FALSE, Z |-> FALSE, N |-> FALSE]), Cycles(2),
            Is([a |-> \hFB]), Cycles(2),
            Is([a |-> \hF1, C |-> TRUE, Z |-> FALSE, N |-> TRUE])>>),
     Test(<<k.LDA.IMM, \h7F, k.ADC.IMM, 1>>,
          <<Is([pc |-> \h8000, a |-> 0, C |-> FALSE, Z |-> FALSE, N |-> FALSE, V |-> FALSE]),
            Cycles(2), Is([a |-> \h7F]), Cycles(2),
            Is([a |-> \h80, C |-> FALSE, Z |-> FALSE, N |-> TRUE, V |-> TRUE])>>)}

Unit_ADC_ZP ==
    {Test(<<k.LDA.IMM, 1, k.STA.ZP, 0, k.ADC.ZP, 0>>,
          <<Is([a |-> 0]), Cycles(2), Is([a |-> 1]), Mem(0, 0), Cycles(3), Is([a |-> 1]),
            Mem(0, 1), Cycles(3), Is([a |-> 2])>>)}

Unit_ADC_ZPX ==
    {Test(<<k.LDA.IMM, 5, k.STA.ZP, 3, k.LDX.IMM, 2, k.ADC.ZPX, 1>>,
          <<Is([a |-> 0]), Cycles(2), Is([a |-> 5]), Mem(3, 0), Cycles(3), Is([a |-> 5]),
            Mem(3, 5), Cycles(2), Is([x |-> 2]), Cycles(4), Is([a |-> \h0A])>>)}

Unit_ADC_ABS ==
    {Test(<<k.LDA.IMM, 1, k.STA.ABS, 0, \h10, k.ADC.ABS, 0, \h10>>,
          <<Is([a |-> 0]), Cycles(2), Is([a |-> 1]), Mem(\h1000, 0), Cycles(4),
            Is([a |-> 1]), Mem(\h1000, 1), Cycles(4), Is([a |-> 2])>>)}

Unit_ADC_ABSX ==
    {Test(<<k.LDA.IMM, 5, k.STA.ABS, 2, \h10, k.LDX.IMM, 2, k.ADC.ABSX, 0, \h10>>,
          <<Is([a |-> 0]), Cycles(2), Is([a |-> 5]), Mem(\h1002, 0), Cycles(4),
            Is([a |-> 5]), Mem(\h1002, 5), Cycles(2), Is([x |-> 2, a |-> 5]),
            Mem(\h1002, 5), Cycles(4), Is([a |-> \h0A]), Mem(\h1002, 5)>>),
     Test(<<k.LDA.IMM, 5, k.STA.ABS, 0, \h10, k.LDX.IMM, 2, k.ADC.ABSX, \hFE, \h0F>>,
          <<Is([a |-> 0]), Cycles(2), Is([a |-> 5]), Mem(\h1000, 0), Cycles(4),
            Is([a |-> 5]), Mem(\h1000, 5), Cycles(2), Is([x |-> 2, a |-> 5]),
            Mem(\h1000, 5), Cycles(4), Is([a |-> 5]), Mem(\h1000, 5), Cycles(1),
            Is([a |-> \h0A]), Mem(\h1000, 5)>>)}

Unit_ADC_ABSY ==
    {Test(<<k.LDA.IMM, 5, k.STA.ABS, 2, \h10, k.LDY.IMM, 2, k.ADC.ABSY, 0, \h10>>,
          <<Is([a |-> 0]), Cycles(2), Is([a |-> 5]), Mem(\h1002, 0), Cycles(4),
            Is([a |-> 5]), Mem(\h1002, 5), Cycles(2), Is([y |-> 2, a |-> 5]),
            Mem(\h1002, 5), Cycles(4), Is([a |-> \h0A]), Mem(\h1002, 5)>>),
     Test(<<k.LDA.IMM, 5, k.STA.ABS, 0, \h10, k.LDY.IMM, 2, k.ADC.ABSY, \hFE, \h0F>>,
          <<Is([a |-> 0]), Cycles(2), Is([a |-> 5]), Mem(\h1000, 0), Cycles(4),
            Is([a |-> 5]), Mem(\h1000, 5), Cycles(2), Is([y |-> 2, a |-> 5]),
            Mem(\h1000, 5), Cycles(4), Is([a |-> 5]), Mem(\h1000, 5), Cycles(1),
            Is([a |-> \h0A]), Mem(\h1000, 5)>>)}

Unit_ADC_INDX ==
    {Test(<<k.LDA.IMM, 5, k.STA.ABS, 0, \h10, k.LDX.IMM, 2, k.ADC.INDX, 3>>,
          <<Is([a |-> 0]), Put16(5, \h1000), Cycles(2), Is([a |-> 5]), Mem(\h1000, 0),
            Cycles(4), Is([a |-> 5]), Mem(\h1000, 5), Cycles(2), Is([x |-> 2, a |-> 5]),
            Mem(\h1000, 5), Cycles(6), Is([a |-> \h0A]), Mem(\h1000, 5)>>)}

Unit_ADC_INDY ==
    {Test(<<k.LDA.IMM, 5, k.STA.ABS, 2, \h10, k.LDY.IMM, 2, k.ADC.INDY, 3>>,
          <<Is([a |-> 0]), Put16(3, \h1000), Cycles(2), Is([a |-> 5]), Mem(\h1000, 0),
            Cycles(4), Is([a |-> 5]), Mem(\h1002, 5), Cycles(2), Is([y |-> 2, a |-> 5]),
            Mem(\h1002, 5), Cycles(6), Is([a |-> \h0A]), Mem(\h1002, 5)>>)}

Unit_CMP_IMM ==
    {Test(<<k.LDA.IMM, 6, k.CMP.IMM, 5>>,
          <<Instr, Is([C |-> FALSE, Z |-> FALSE, N |-> FALSE]), Cycles(2),
            Is([C |-> TRUE, Z |-> FALSE, N |-> FALSE])>>),
     Test(<<k.LDA.IMM, 5, k.CMP.IMM, 5>>,
          <<Instr, Is([C |-> FALSE, Z |-> FALSE, N |-> FALSE]), Cycles(2),
            Is([C |-> TRUE, Z |-> TRUE, N |-> FALSE])>>),
     Test(<<k.LDA.IMM, 4, k.CMP.IMM, 5>>,
          <<Instr, Is([C |-> FALSE, Z |-> FALSE, N |-> FALSE]), Cycles(2),
            Is([C |-> FALSE, Z |-> FALSE, N |-> TRUE])>>)}

Unit_CMP_ZP ==
    {Test(<<k.LDA.IMM, 6, k.CMP.ZP, 3>>,
          <<Instr, Cycles(2), Is([C |-> FALSE, Z |-> FALSE, N |-> FALSE]), Put(3, 5),
            Cycles(1), Is([C |-> TRUE, Z |-> FALSE, N |-> FALSE])>>),
     Test(<<k.LDA.IMM, 6, k.CMP.ZP, 3>>,
          <<Instr, Cycles(2), Is([C |-> FALSE, Z |-> FALSE, N |-> FALSE]), Put(3, 6),
            Cycles(1), Is([C |-> TRUE, Z |-> TRUE, N |-> FALSE])>>),
     Test(<<k.LDA.IMM, 6, k.CMP.ZP, 3>>,
          <<Instr, Cycles(2), Is([C |-> FALSE, Z |-> FALSE, N |-> FALSE]), Put(3, 7),
            Cycles(1), Is([C |-> FALSE, Z |-> FALSE, N |-> TRUE])>>)}

Unit_CMP_ZPX ==
    {Test(<<k.LDA.IMM, 6, k.LDX.IMM, 1, k.CMP.ZPX, 2>>,
          <<Instr, Instr, Cycles(3), Is([C |-> FALSE, Z |-> FALSE, N |-> FALSE]), Put(3, 5),
            Cycles(1), Is([C |-> TRUE, Z |-> FALSE, N |-> FALSE])>>),
     Test(<<k.LDA.IMM, 6, k.LDX.IMM, 1, k.CMP.ZPX, 2>>,
          <<Instr, Instr, Cycles(3), Is([C |-> FALSE, Z |-> FALSE, N |-> FALSE]), Put(3, 6),
            Cycles(1), Is([C |-> TRUE, Z |-> TRUE, N |-> FALSE])>>),
     Test(<<k.LDA.IMM, 6, k.LDX.IMM, 1, k.CMP.ZPX, 2>>,
          <<Instr, Instr, Cycles(3), Is([C |-> FALSE, Z |-> FALSE, N |-> FALSE]), Put(3, 7),
            Cycles(1), Is([C |-> FALSE, Z |-> FALSE, N |-> TRUE])>>)}

Unit_CMP_ABS ==
    {Test(<<k.LDA.IMM, 6, k.CMP.ABS, 3, 0>>,
          <<Instr, Cycles(3), Is([C |-> FALSE, Z |-> FALSE, N |-> FALSE]), Put(3, 5),
            Cycles(1), Is([C |-> TRUE, Z |-> FALSE, N |-> FALSE])>>),
     Test(<<k.LDA.IMM, 6, k.CMP.ABS, 3, 0>>,
          <<Instr, Cycles(3), Is([C |-> FALSE, Z |-> FALSE, N |-> FALSE]), Put(3, 6),
            Cycles(1), Is([C |-> TRUE, Z |-> TRUE, N |-> FALSE])>>),
     Test(<<k.LDA.IMM, 6, k.CMP.ABS, 3, 0>>,
          <<Instr, Cycles(3), Is([C |-> FALSE, Z |-> FALSE, N |-> FALSE]), Put(3, 7),
            Cycles(1), Is([C |-> FALSE, Z |-> FALSE, N |-> TRUE])>>)}

Unit_CMP_ABSX ==
    {Test(<<k.LDA.IMM, 6, k.LDX.IMM, 1, k.CMP.ABSX, 2, 0>>,
          <<Instr, Instr, Cycles(3), Is([C |-> FALSE, Z |-> FALSE, N |-> FALSE]), Put(3, 5),
            Cycles(1), Is([C |-> TRUE, Z |-> FALSE, N |-> FALSE])>>),
     Test(<<k.LDA.IMM, 6, k.LDX.IMM, 1, k.CMP.ABSX, 2, 0>>,
          <<Instr, Instr, Cycles(3), Is([C |-> FALSE, Z |-> FALSE, N |-> FALSE]), Put(3, 6),
            Cycles(1), Is([C |-> TRUE, Z |-> TRUE, N |-> FALSE])>>),
     Test(<<k.LDA.IMM, 6, k.LDX.IMM, 1, k.CMP.ABSX, 2, 0>>,
          <<Instr, Instr, Cycles(3), Is([C |-> FALSE, Z |-> FALSE, N |-> FALSE]), Put(3, 7),
            Cycles(1), Is([C |-> FALSE, Z |-> FALSE, N |-> TRUE])>>)}

Unit_CMP_ABSY ==
    {Test(<<k.LDA.IMM, 6, k.LDY.IMM, 1, k.CMP.ABSY, 2, 0>>,
          <<Instr, Instr, Cycles(3), Is([C |-> FALSE, Z |-> FALSE, N |-> FALSE]), Put(3, 5),
            Cycles(1), Is([C |-> TRUE, Z |-> FALSE, N |-> FALSE])>>),
     Test(<<k.LDA.IMM, 6, k.LDY.IMM, 1, k.CMP.ABSY, 2, 0>>,
          <<Instr, Instr, Cycles(3), Is([C |-> FALSE, Z |-> FALSE, N |-> FALSE]), Put(3, 6),
            Cycles(1), Is([C |-> TRUE, Z |-> TRUE, N |-> FALSE])>>),
     Test(<<k.LDA.IMM, 6, k.LDY.IMM, 1, k.CMP.ABSY, 2, 0>>,
          <<Instr, Instr, Cycles(3), Is([C |-> FALSE, Z |-> FALSE, N |-> FALSE]), Put(3, 7),
            Cycles(1), Is([C |-> FALSE, Z |-> FALSE, N |-> TRUE])>>)}

Unit_CMP_INDX ==
    {Test(<<k.LDA.IMM, 6, k.LDX.IMM, 1, k.CMP.INDX, \h0E>>,
          <<Put(\h0F, 3), Instr, Instr, Cycles(5),
            Is([C |-> FALSE, Z |-> FALSE, N |-> FALSE]), Put(3, 5), Cycles(1),
            Is([C |-> TRUE, Z |-> FALSE, N |-> FALSE])>>),
     Test(<<k.LDA.IMM, 6, k.LDX.IMM, 1, k.CMP.INDX, \h0E>>,
          <<Put(\h0F, 3), Instr, Instr, Cycles(5),
            Is([C |-> FALSE, Z |-> FALSE, N |-> FALSE]), Put(3, 6), Cycles(1),
            Is([C |-> TRUE, Z |-> TRUE, N |-> FALSE])>>),
     Test(<<k.LDA.IMM, 6, k.LDX.IMM, 1, k.CMP.INDX, \h0E>>,
          <<Put(\h0F, 3), Instr, Instr, Cycles(5),
            Is([C |-> FALSE, Z |-> FALSE, N |-> FALSE]), Put(3, 7), Cycles(1),
            Is([C |-> FALSE, Z |-> FALSE, N |-> TRUE])>>)}

Unit_CMP_INDY ==
    {Test(<<k.LDA.IMM, 6, k.LDY.IMM, 1, k.CMP.INDX, \h0F>>,
          <<Put(\h0F, 2), Instr, Instr, Cycles(5),
            Is([C |-> FALSE, Z |-> FALSE, N |-> FALSE]), Put(3, 5), Cycles(1),
            Is([C |-> TRUE, Z |-> FALSE, N |-> FALSE])>>)}

Unit_CPX_IMM ==
    {Test(<<k.LDX.IMM, 6, k.CPX.IMM, 5>>,
          <<Instr, Is([C |-> FALSE, Z |-> FALSE, N |-> FALSE]), Cycles(2),
            Is([C |-> TRUE, Z |-> FALSE, N |-> FALSE])>>),
     Test(<<k.LDX.IMM, 5, k.CPX.IMM, 5>>,
          <<Instr, Is([C |-> FALSE, Z |-> FALSE, N |-> FALSE]), Cycles(2),
            Is([C |-> TRUE, Z |-> TRUE, N |-> FALSE])>>),
     Test(<<k.LDX.IMM, 4, k.CPX.IMM, 5>>,
          <<Instr, Is([C |-> FALSE, Z |-> FALSE, N |-> FALSE]), Cycles(2),
            Is([C |-> FALSE, Z |-> FALSE, N |-> TRUE])>>)}

Unit_CPX_ZP ==
    {Test(<<k.LDX.IMM, 6, k.CPX.ZP, 3>>,
          <<Instr, Is([C |-> FALSE, Z |-> FALSE, N |-> FALSE]), Cycles(2), Put(3, 5),
            Cycles(1), Is([C |-> TRUE, Z |-> FALSE, N |-> FALSE])>>),
     Test(<<k.LDX.IMM, 6, k.CPX.ZP, 3>>,
          <<Instr, Is([C |-> FALSE, Z |-> FALSE, N |-> FALSE]), Cycles(2), Put(3, 6),
            Cycles(1), Is([C |-> TRUE, Z |-> TRUE, N |-> FALSE])>>),
     Test(<<k.LDX.IMM, 6, k.CPX.ZP, 3>>,
          <<Instr, Is([C |-> FALSE, Z |-> FALSE, N |-> FALSE]), Cycles(2), Put(3, 8),
            Cycles(1), Is([C |-> FALSE, Z |-> FALSE, N |-> TRUE])>>)}

Unit_CPX_ABS ==
    {Test(<<k.LDX.IMM, 6, k.CPX.ABS, 3, 0>>,
          <<Instr, Is([C |-> FALSE, Z |-> FALSE, N |-> FALSE]), Cycles(3), Put(3, 5),
            Cycles(1), Is([C |-> TRUE, Z |-> FALSE, N |-> FALSE])>>),
     Test(<<k.LDX.IMM, 6, k.CPX.ABS, 3, 0>>,
          <<Instr, Is([C |-> FALSE, Z |-> FALSE, N |-> FALSE]), Cycles(3), Put(3, 6),
            Cycles(1), Is([C |-> TRUE, Z |-> TRUE, N |-> FALSE])>>),
     Test(<<k.LDX.IMM, 6, k.CPX.ABS, 3, 0>>,
          <<Instr, Is([C |-> FALSE, Z |-> FALSE, N |-> FALSE]), Cycles(3), Put(3, 8),
            Cycles(1), Is([C |-> FALSE, Z |-> FALSE, N |-> TRUE])>>)}

Unit_CPY_IMM ==
    {Test(<<k.LDY.IMM, 6, k.CPY.IMM, 5>>,
          <<Instr, Is([C |-> FALSE, Z |-> FALSE, N |-> FALSE]), Cycles(2),
            Is([C |-> TRUE, Z |-> FALSE, N |-> FALSE])>>),
     Test(<<k.LDY.IMM, 5, k.CPY.IMM, 5>>,
          <<Instr, Is([C |-> FALSE, Z |-> FALSE, N |-> FALSE]), Cycles(2),
            Is([C |-> TRUE, Z |-> TRUE, N |-> FALSE])>>),
     Test(<<k.LDY.IMM, 4, k.CPY.IMM, 5>>,
          <<Instr, Is([C |-> FALSE, Z |-> FALSE, N |-> FALSE]), Cycles(2),
            Is([C |-> FALSE, Z |-> FALSE, N |-> TRUE])>>)}

Unit_CPY_ZP ==
    {Test(<<k.LDY.IMM, 6, k.CPY.ZP, 3>>,
          <<Instr, Is([C |-> FALSE, Z |-> FALSE, N |-> FALSE]), Cycles(2), Put(3, 5),
            Cycles(1), Is([C |-> TRUE, Z |-> FALSE, N |-> FALSE])>>),
     Test(<<k.LDY.IMM, 6, k.CPY.ZP, 3>>,
          <<Instr, Is([C |-> FALSE, Z |-> FALSE, N |-> FALSE]), Cycles(2), Put(3, 6),
            Cycles(1), Is([C |-> TRUE, Z |-> TRUE, N |-> FALSE])>>),
     Test(<<k.LDY.IMM, 6, k.CPY.ZP, 3>>,
          <<Instr, Is([C |-> FALSE, Z |-> FALSE, N |-> FALSE]), Cycles(2), Put(3, 8),
            Cycles(1), Is([C |-> FALSE, Z |-> FALSE, N |-> TRUE])>>)}

Unit_CPY_ABS ==
    {Test(<<k.LDY.IMM, 6, k.CPY.ABS, 3, 0>>,
          <<Instr, Is([C |-> FALSE, Z |-> FALSE, N |-> FALSE]), Cycles(3), Put(3, 5),
            Cycles(1), Is([C |-> TRUE, Z |-> FALSE, N |-> FALSE])>>),
     Test(<<k.LDY.IMM, 6, k.CPY.ABS, 3, 0>>,
          <<Instr, Is([C |-> FALSE, Z |-> FALSE, N |-> FALSE]), Cycles(3), Put(3, 6),
            Cycles(1), Is([C |-> TRUE, Z |-> TRUE, N |-> FALSE])>>),
     Test(<<k.LDY.IMM, 6, k.CPY.ABS, 3, 0>>,
          <<Instr, Is([C |-> FALSE, Z |-> FALSE, N |-> FALSE]), Cycles(3), Put(3, 8),
            Cycles(1), Is([C |-> FALSE, Z |-> FALSE, N |-> TRUE])>>)}

Unit_DEC_ZP ==
    {Test(<<k.DEC.ZP, 5>>,
          <<Cycles(4), Is([Z |-> FALSE, N |-> FALSE]), Put(5, 9), Cycles(1), Mem(5, 8),
            Is([Z |-> FALSE, N |-> FALSE])>>),
     Test(<<k.DEC.ZP, 5>>,
          <<Cycles(4), Is([Z |-> FALSE, N |-> FALSE]), Put(5, 0), Cycles(1), Mem(5, \hFF),
            Is([Z |-> FALSE, N |-> TRUE])>>),
     Test(<<k.DEC.ZP, 5>>,
          <<Cycles(4), Is([Z |-> FALSE, N |-> FALSE]), Put(5, 1), Cycles(1), Mem(5, 0),
            Is([Z |-> TRUE, N |-> FALSE])>>)}

Unit_DEC_ZPX ==
    {Test(<<k.LDX.IMM, 2, k.DEC.ZPX, 3>>,
          <<Instr, Cycles(5), Is([Z |-> FALSE, N |-> FALSE]), Put(5, 9), Cycles(1),
            Mem(5, 8), Is([Z |-> FALSE, N |-> FALSE])>>)}

Unit_DEC_ABS ==
    {Test(<<k.DEC.ABS, 5, 0>>,
          <<Cycles(5), Is([Z |-> FALSE, N |-> FALSE]), Put(5, 9), Cycles(1), Mem(5, 8),
            Is([Z |-> FALSE, N |-> FALSE])>>)}

Unit_DEC_ABSX ==
    {Test(<<k.LDX.IMM, 2, k.DEC.ABSX, 3, 0>>,
          <<Instr, Cycles(6), Is([Z |-> FALSE, N |-> FALSE]), Put(5, 9), Cycles(1),
            Mem(5, 8), Is([Z |-> FALSE, N |-> FALSE])>>)}

Unit_DEX ==
    {Test(<<k.LDX.IMM, 2, k.DEX.IMPL>>,
          <<Instr, Cycles(1), Is([Z |-> FALSE, N |-> FALSE]), Cycles(1),
            Is([x |-> 1, Z |-> FALSE, N |-> FALSE])>>),
     Test(<<k.LDX.IMM, 1, k.DEX.IMPL>>,
          <<Instr, Cycles(1), Is([Z |-> FALSE, N |-> FALSE]), Cycles(1),
            Is([x |-> 0, Z |-> TRUE, N |-> FALSE])>>),
     Test(<<k.LDX.IMM, \h81, k.LDA.IMM, 1, k.DEX.IMPL>>,
          <<Instr, Instr, Cycles(1), Is([Z |-> FALSE, N |-> FALSE]), Cycles(1),
            Is([x |-> \h80, Z |-> FALSE, N |-> TRUE])>>)}

Unit_DEY ==
    {Test(<<k.LDY.IMM, 2, k.DEY.IMPL>>,
          <<Instr, Cycles(1), Is([Z |-> FALSE, N |-> FALSE]), Cycles(1),
            Is([y |-> 1, Z |-> FALSE, N |-> FALSE])>>),
     Test(<<k.LDY.IMM, 1, k.DEY.IMPL>>,
          <<Instr, Cycles(1), Is([Z |-> FALSE, N |-> FALSE]), Cycles(1),
            Is([y |-> 0, Z |-> TRUE, N |-> FALSE])>>),
     Test(<<k.LDY.IMM, \h81, k.LDA.IMM, 1, k.DEY.IMPL>>,
          <<Instr, Instr, Cycles(1), Is([Z |-> FALSE, N |-> FALSE]), Cycles(1),
            Is([y |-> \h80, Z |-> FALSE, N |-> TRUE])>>)}

Unit_INC_ZP ==
    {Test(<<k.INC.ZP, 5>>,
          <<Cycles(4), Is([Z |-> FALSE, N |-> FALSE]), Put(5, 7), Cycles(1), Mem(5, 8),
            Is([Z |-> FALSE, N |-> FALSE])>>),
     Test(<<k.INC.ZP, 5>>,
          <<Cycles(4), Is([Z |-> FALSE, N |-> FALSE]), Put(5, \h80), Cycles(1),
            Mem(5, \h81), Is([Z |-> FALSE, N |-> TRUE])>>),
     Test(<<k.INC.ZP, 5>>,
          <<Cycles(4), Is([Z |-> FALSE, N |-> FALSE]), Put(5, \hFF), Cycles(1), Mem(5, 0),
            Is([Z |-> TRUE, N |-> FALSE])>>)}

Unit_INC_ZPX ==
    {Test(<<k.LDX.IMM, 2, k.INC.ZPX, 3>>,
          <<Instr, Cycles(5), Is([Z |-> FALSE, N |-> FALSE]), Put(5, 7), Cycles(1),
            Mem(5, 8), Is([Z |-> FALSE, N |-> FALSE])>>)}

Unit_INC_ABS ==
    {Test(<<k.INC.ABS, 5, 0>>,
          <<Cycles(5), Is([Z |-> FALSE, N |-> FALSE]), Put(5, 7), Cycles(1), Mem(5, 8),
            Is([Z |-> FALSE, N |-> FALSE])>>)}

Unit_INC_ABSX ==
    {Test(<<k.LDX.IMM, 2, k.INC.ABSX, 3, 0>>,
          <<Instr, Cycles(6), Is([Z |-> FALSE, N |-> FALSE]), Put(5, 7), Cycles(1),
            Mem(5, 8), Is([Z |-> FALSE, N |-> FALSE])>>)}

Unit_INX ==
    {Test(<<k.LDX.IMM, 2, k.INX.IMPL>>,
          <<Instr, Cycles(1), Is([Z |-> FALSE, N |-> FALSE]), Cycles(1),
            Is([x |-> 3, Z |-> FALSE, N |-> FALSE])>>),
     Test(<<k.LDX.IMM, \hFF, k.LDA.IMM, 1, k.INX.IMPL>>,
          <<Instr, Instr, Cycles(1), Is([Z |-> FALSE, N |-> FALSE]), Cycles(1),
            Is([x |-> 0, Z |-> TRUE, N |-> FALSE])>>),
     Test(<<k.LDX.IMM, \h80, k.LDA.IMM, 1, k.INX.IMPL>>,
          <<Instr, Instr, Cycles(1), Is([Z |-> FALSE, N |-> FALSE]), Cycles(1),
            Is([x |-> \h81, Z |-> FALSE, N |-> TRUE])>>)}

Unit_INY ==
    {Test(<<k.LDY.IMM, 2, k.INY.IMPL>>,
          <<Instr, Cycles(1), Is([Z |-> FALSE, N |-> FALSE]), Cycles(1),
            Is([y |-> 3, Z |-> FALSE, N |-> FALSE])>>),
     Test(<<k.LDY.IMM, \hFF, k.LDA.IMM, 1, k.INY.IMPL>>,
          <<Instr, Instr, Cycles(1), Is([Z |-> FALSE, N |-> FALSE]), Cycles(1),
            Is([y |-> 0, Z |-> TRUE, N |-> FALSE])>>),
     Test(<<k.LDY.IMM, \h80, k.LDA.IMM, 1, k.INY.IMPL>>,
          <<Instr, Instr, Cycles(1), Is([Z |-> FALSE, N |-> FALSE]), Cycles(1),
            Is([y |-> \h81, Z |-> FALSE, N |-> TRUE])>>)}

Unit_SBC_IMM ==
    {Test(<<k.LDA.IMM, 3, k.SBC.IMM, 1>>,
          <<Instr, Cycles(1),
            Is([a |-> 3, C |-> FALSE, Z |-> FALSE, N |-> FALSE, V |-> FALSE]), Cycles(1),
            Is([a |-> 1, C |-> FALSE, Z |-> FALSE, N |-> FALSE, V |-> FALSE])>>),
     Test(<<k.LDA.IMM, 1, k.LDX.IMM, 1, k.SBC.IMM, 2>>,
          <<Instr, Instr, Cycles(1),
            Is([a |-> 1, C |-> FALSE, Z |-> FALSE, N |-> FALSE, V |-> FALSE]), Cycles(1),
            Is([a |-> \hFE, C |-> TRUE, Z |-> FALSE, N |-> TRUE, V |-> FALSE])>>),
     Test(<<k.LDA.IMM, 1, k.LDX.IMM, 1, k.SBC.IMM, \h7F>>,
          <<Instr, Instr, Cycles(1),
            Is([a |-> 1, C |-> FALSE, Z |-> FALSE, N |-> FALSE, V |-> FALSE]), Cycles(1),
            Is([a |-> \h81, C |-> TRUE, Z |-> FALSE, N |-> TRUE, V |-> FALSE])>>)}

Unit_SBC_ZP ==
    {Test(<<k.LDA.IMM, 3, k.SBC.ZP, 5>>,
          <<Put(5, 1), Instr, Cycles(2),
            Is([a |-> 3, C |-> FALSE, Z |-> FALSE, N |-> FALSE, V |-> FALSE]), Cycles(1),
            Is([a |-> 1, C |-> FALSE, Z |-> FALSE, N |-> FALSE, V |-> FALSE])>>)}

Unit_SBC_ZPX ==
    {Test(<<k.LDA.IMM, 3, k.LDX.IMM, 2, k.SBC.ZPX, 3>>,
          <<Put(5, 1), Instr, Instr, Cycles(3),
            Is([a |-> 3, C |-> FALSE, Z |-> FALSE, N |-> FALSE, V |-> FALSE]), Cycles(1),
            Is([a |-> 1, C |-> FALSE, Z |-> FALSE, N |-> FALSE, V |-> FALSE])>>)}

Unit_SBC_ABS ==
    {Test(<<k.LDA.IMM, 3, k.SBC.ABS, 5, 0>>,
          <<Put(5, 1), Instr, Cycles(3),
            Is([a |-> 3, C |-> FALSE, Z |-> FALSE, N |-> FALSE, V |-> FALSE]), Cycles(1),
            Is([a |-> 1, C |-> FALSE, Z |-> FALSE, N |-> FALSE, V |-> FALSE])>>)}

Unit_SBC_ABSX ==
    {Test(<<k.LDA.IMM, 3, k.LDX.IMM, 2, k.SBC.ZPX, 3, 0>>,
          <<Put(5, 1), Instr, Instr, Cycles(3),
            Is([a |-> 3, C |-> FALSE, Z |-> FALSE, N |-> FALSE, V |-> FALSE]), Cycles(1),
            Is([a |-> 1, C |-> FALSE, Z |-> FALSE, N |-> FALSE, V |-> FALSE])>>)}

Unit_SBC_ABSY ==
    {Test(<<k.LDA.IMM, 3, k.LDY.IMM, 2, k.SBC.ABSY, 3, 0>>,
          <<Put(5, 1), Instr, Instr, Cycles(3),
            Is([a |-> 3, C |-> FALSE, Z |-> FALSE, N |-> FALSE, V |-> FALSE]), Cycles(1),
            Is([a |-> 1, C |-> FALSE, Z |-> FALSE, N |-> FALSE, V |-> FALSE])>>)}

Unit_SBC_INDX ==
    {Test(<<k.LDA.IMM, 3, k.LDX.IMM, 2, k.SBC.INDX, 1, 0>>,
          <<Put(3, 5), Put(5, 1), Instr, Instr, Cycles(5),
            Is([a |-> 3, C |-> FALSE, Z |-> FALSE, N |-> FALSE, V |-> FALSE]), Cycles(1),
            Is([a |-> 1, C |-> FALSE, Z |-> FALSE, N |-> FALSE, V |-> FALSE])>>)}

Unit_SBC_INDY ==
    {Test(<<k.LDA.IMM, 3, k.LDY.IMM, 2, k.SBC.INDY, 1, 0>>,
          <<Put(1, 3), Put(5, 1), Instr, Instr, Cycles(4),
            Is([a |-> 3, C |-> FALSE, Z |-> FALSE, N |-> FALSE, V |-> FALSE]), Cycles(1),
            Is([a |-> 1, C |-> FALSE, Z |-> FALSE, N |-> FALSE, V |-> FALSE])>>)}
=============================================================================
