----------------------------- MODULE UnitsFlow -----------------------------
(***************************************************************************)
(* The unit tests (app/test-cpu.cpp) of                                    *)
(* branches, jumps, calls, interrupts, the stack.                          *)
(* A TEST_CASE is the set of tests that its sections, or the values it     *)
(* generates, make.                                                        *)
(***************************************************************************)
EXTENDS Isa, Script

Unit_BCC_REL ==
    {Test(<<k.LDA.IMM, 2, k.CMP.IMM, 3, k.BCC.REL, 6, k.CMP.IMM, 1, k.NOP.IMPL,
          k.NOP.IMPL, k.NOP.IMPL, k.NOP.IMPL, k.BCC.REL, \hF8, k.NOP.IMPL, k.NOP.IMPL>>,
          <<Instr, Instr, Is([N |-> TRUE, C |-> FALSE]), Mark, Instr, Moved(8), Mark, Instr,
            Moved(-6), Instr, Is([N |-> FALSE]), Instr, Instr, Instr, Instr, Mark, Instr,
            Moved(2)>>)}

Unit_BCS_REL ==
    {Test(<<k.LDA.IMM, 2, k.CMP.IMM, 1, k.BCS.REL, 6, k.CMP.IMM, 3, k.NOP.IMPL,
          k.NOP.IMPL, k.NOP.IMPL, k.NOP.IMPL, k.BCS.REL, \hF8, k.NOP.IMPL, k.NOP.IMPL>>,
          <<Instr, Instr, Is([N |-> FALSE, C |-> TRUE]), Mark, Instr, Moved(8), Mark, Instr,
            Moved(-6), Instr, Is([N |-> TRUE]), Instr, Instr, Instr, Instr, Mark, Instr,
            Moved(2)>>)}

Unit_BEQ_REL ==
    {Test(<<k.LDA.IMM, 2, k.CMP.IMM, 2, k.BEQ.REL, 6, k.CMP.IMM, 3, k.NOP.IMPL,
          k.NOP.IMPL, k.NOP.IMPL, k.NOP.IMPL, k.BEQ.REL, \hF8, k.NOP.IMPL, k.NOP.IMPL>>,
          <<Instr, Instr, Is([N |-> FALSE, C |-> TRUE, Z |-> TRUE]), Mark, Instr, Moved(8),
            Mark, Instr, Moved(-6), Instr, Is([N |-> TRUE]), Instr, Instr, Instr, Instr,
            Mark, Instr, Moved(2)>>)}

Unit_BMI_REL ==
    {Test(<<k.LDA.IMM, 2, k.CMP.IMM, 3, k.BMI.REL, 6, k.CMP.IMM, 1, k.NOP.IMPL,
          k.NOP.IMPL, k.NOP.IMPL, k.NOP.IMPL, k.BMI.REL, \hF8, k.NOP.IMPL, k.NOP.IMPL>>,
          <<Instr, Instr, Is([N |-> TRUE, C |-> FALSE]), Mark, Instr, Moved(8), Mark, Instr,
            Moved(-6), Instr, Is([N |-> FALSE]), Instr, Instr, Instr, Instr, Mark, Instr,
            Moved(2)>>)}

Unit_BNE_REL ==
    {Test(<<k.LDA.IMM, 2, k.CMP.IMM, 1, k.BNE.REL, 6, k.CMP.IMM, 2, k.NOP.IMPL,
          k.NOP.IMPL, k.NOP.IMPL, k.NOP.IMPL, k.BNE.REL, \hF8, k.NOP.IMPL, k.NOP.IMPL>>,
          <<Instr, Instr, Is([N |-> FALSE, C |-> TRUE]), Mark, Instr, Moved(8), Mark, Instr,
            Moved(-6), Instr, Is([N |-> FALSE]), Instr, Instr, Instr, Instr, Mark, Instr,
            Moved(2)>>)}

Unit_BPL_REL ==
    {Test(<<k.LDA.IMM, 2, k.CMP.IMM, 1, k.BPL.REL, 6, k.CMP.IMM, 3, k.NOP.IMPL,
          k.NOP.IMPL, k.NOP.IMPL, k.NOP.IMPL, k.BPL.REL, \hF8, k.NOP.IMPL, k.NOP.IMPL>>,
          <<Instr, Instr, Is([N |-> FALSE]), Mark, Instr, Moved(8), Mark, Instr, Moved(-6),
            Instr, Is([N |-> TRUE]), Instr, Instr, Instr, Instr, Mark, Instr, Moved(2)>>)}

Unit_BRK ==
    {TestWithIsr(<<k.BRK.IMPL>>, \h1234, <<Is([B |-> TRUE]), Instr, Is([B |-> TRUE, pc |-> \h1234])>>)}

Unit_BVC_REL ==
    {Test(<<k.LDA.IMM, 0, k.ADC.IMM, 1, k.BVC.REL, 6, k.ADC.IMM, \h7F, k.NOP.IMPL,
          k.NOP.IMPL, k.NOP.IMPL, k.NOP.IMPL, k.BVC.REL, \hF8, k.NOP.IMPL, k.NOP.IMPL>>,
          <<Instr, Instr, Is([N |-> FALSE, C |-> FALSE, V |-> FALSE]), Mark, Instr,
            Moved(8), Mark, Instr, Moved(-6), Instr, Is([N |-> TRUE]), Instr, Instr, Instr,
            Instr, Mark, Instr, Moved(2)>>)}

Unit_BVS_REL ==
    {Test(<<k.LDA.IMM, \h7F, k.ADC.IMM, 1, k.BVS.REL, 6, k.ADC.IMM, 0, k.NOP.IMPL,
          k.NOP.IMPL, k.NOP.IMPL, k.NOP.IMPL, k.BVS.REL, \hF8, k.NOP.IMPL, k.NOP.IMPL>>,
          <<Instr, Instr, Is([N |-> TRUE, C |-> FALSE, V |-> TRUE]), Mark, Instr, Moved(8),
            Mark, Instr, Moved(-6), Instr, Is([N |-> TRUE]), Instr, Instr, Instr, Instr,
            Mark, Instr, Moved(2)>>)}

Unit_JMP_ABS ==
    {Test(<<k.JMP.ABS, \hCD, \hAB>>,
          <<Cycles(3), Is([pc |-> \hABCD, p |-> \h34])>>)}

Unit_JMP_IND ==
    {Test(<<k.JMP.IND, \h10, 0>>,
          <<Put16(\h10, \h1234), Mem16(\h10, \h1234), Cycles(5), Is([pc |-> \h1234, p |-> \h34])>>)}

Unit_JSR_ABS ==
    {Test(<<k.JSR.ABS, \h34, \h12>>, <<Is([sp |-> \hFD]), Mark, Instr, Is([sp |-> \hFB]), TopMoved(2)>>)}

Unit_NOP ==
    {Test(<<k.NOP.IMPL>>, <<Is([p |-> \h34]), Mark, Cycles(2), Is([p |-> \h34]), Moved(1)>>)}

Unit_PHA ==
    {Test(<<k.LDA.IMM, 9, k.PHA.IMPL, k.LDA.IMM, \h0A, k.PHA.IMPL>>,
          <<Instr, Is([a |-> 9]), Instr, Top(9), Instr, Is([a |-> \h0A]), Instr, Top(\h0A)>>)}

Unit_PHP ==
    {Test(<<k.LDA.IMM, \h7F, k.ADC.IMM, 1, k.PHP.IMPL>>,
          <<Mark, Instr, Instr, NewFlags, Mark, Instr, TopMarked>>)}

Unit_PLA ==
    {Test(<<k.LDA.IMM, 9, k.PHA.IMPL, k.LDA.IMM, \h0A, k.PHA.IMPL, k.LDA.IMM, 0, k.PLA.IMPL,
            k.PLA.IMPL>>,
          <<Instr, Is([a |-> 9]), Instr, Instr, Is([a |-> \h0A]), Instr, Instr, Is([a |-> 0]),
            Instr, Is([a |-> \h0A]), Instr, Is([a |-> 9])>>)}

Unit_PLP ==
    {Test(<<k.LDA.IMM, \h7F, k.ADC.IMM, 1, k.PHP.IMPL, k.LDA.IMM, \hFF, k.ADC.IMM, 1, k.PLP.IMPL>>,
          <<Instr, Instr, Mark, Instr, TopMarked, Instr, Instr, NewFlags, Instr, SameFlags>>)}

Unit_RTI ==
    {TestWithIsr(<<k.LDA.IMM, 1, k.ADC.IMM, \hFF, k.BRK.IMPL, \h78, \h56>>, \h1234,
                 PutAll(\h1234, <<k.LDA.IMM, 1, k.ADC.IMM, \h7F, k.RTI.IMPL>>) \o
                 <<Is([a |-> 0]), Instr, Is([a |-> 1]), Instr, Is([a |-> 0]), Mark, Instr,
                   Is([pc |-> \h1234]), Instr, Is([a |-> 1]), Instr, Is([a |-> \h81]), NewFlags,
                   Instr, Ahead(\h5678), SameFlags>>)}

Unit_RTS ==
    {Test(<<k.LDA.IMM, 1, k.ADC.IMM, \hFF, k.JSR.ABS, \h34, \h12, \h78, \h56>>,
          PutAll(\h1234, <<k.LDA.IMM, 8, k.ADC.IMM, \h7F, k.RTS.IMPL>>) \o
          <<Is([a |-> 0]), Instr, Is([a |-> 1]), Instr, Is([a |-> 0]), Instr, Is([pc |-> \h1234]),
            Instr, Is([a |-> 8]), Instr, Is([a |-> \h88]), Instr, Ahead(\h5678)>>)}

instruction_printer ==
    LET Shown(bytes, op, mode, operand) ==
          Test(<<k.JMP.ABS, 0, 0>>,
               PutAll(0, bytes) \o <<Cycles(3), Is([pc |-> 0]), Prints(op, mode, operand)>>)
    IN  {Shown(<<k.NOP.IMPL>>, "NOP", "IMPL", 0), Shown(<<k.ROR.A>>, "ROR", "A", 0),
         Shown(<<k.LDA.IMM, 1>>, "LDA", "IMM", 1), Shown(<<k.ADC.ZP, \hAF>>, "ADC", "ZP", \hAF),
         Shown(<<k.STY.ZPX, \hD3>>, "STY", "ZPX", \hD3),
         Shown(<<k.STX.ZPY, \h82>>, "STX", "ZPY", \h82),
         Shown(<<k.LDA.ABS, \h34, \h12>>, "LDA", "ABS", \h1234),
         Shown(<<k.LDA.ABSX, \h78, \h56>>, "LDA", "ABSX", \h5678),
         Shown(<<k.LDA.ABSY, \hBC, \h9A>>, "LDA", "ABSY", \h9ABC),
         Shown(<<k.JMP.IND, \h78, \h0F>>, "JMP", "IND", \h0F78),
         Shown(<<k.LDA.INDX, \h42>>, "LDA", "INDX", \h42),
         Shown(<<k.LDA.INDY, \h21>>, "LDA", "INDY", \h21)}
=============================================================================
