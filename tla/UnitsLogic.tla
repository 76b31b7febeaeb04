---------------------------- MODULE UnitsLogic -----------------------------
(***************************************************************************)
(* The unit tests (app/test-cpu.cpp) of                                    *)
(* logic, shifts, rotations and flags.                                     *)
(* A TEST_CASE is the set of tests that its sections, or the values it     *)
(* generates, make.                                                        *)
(***************************************************************************)
EXTENDS Isa, Script

Unit_AND_IMM ==
    {Test(<<k.LDA.IMM, 5, k.AND.IMM, 6>>,
          <<Instr, Is([a |-> 5, Z |-> FALSE, N |-> FALSE]), Cycles(2),
            Is([a |-> 4, Z |-> FALSE, N |-> FALSE])>>),
     Test(<<k.LDA.IMM, \h85, k.AND.IMM, \h86>>,
          <<Instr, Is([a |-> \h85, Z |-> FALSE, N |-> TRUE]), Cycles(2),
            Is([a |-> \h84, Z |-> FALSE, N |-> TRUE])>>),
     Test(<<k.LDA.IMM, 1, k.AND.IMM, 2>>,
          <<Instr, Is([a |-> 1, Z |-> FALSE, N |-> FALSE]), Cycles(2),
            Is([a |-> 0, Z |-> TRUE, N |-> FALSE])>>)}

Unit_AND_ZP ==
    {Test(<<k.LDA.IMM, \h15, k.AND.ZP, 7>>,
          <<Put(7, 4), Instr, Is([a |-> \h15, Z |-> FALSE, N |-> FALSE]), Instr,
            Is([a |-> 4, Z |-> FALSE, N |-> FALSE])>>)}

Unit_AND_ZPX ==
    {Test(<<k.LDX.IMM, 2, k.LDA.IMM, 5, k.AND.ZPX, 5>>,
          <<Put(7, 4), Instr, Instr, Is([a |-> 5, Z |-> FALSE, N |-> FALSE]), Instr,
            Is([a |-> 4, Z |-> FALSE, N |-> FALSE])>>)}

Unit_AND_ABS ==
    {Test(<<k.LDA.IMM, 5, k.AND.ABS, 5, 0>>,
          <<Put(5, 4), Instr, Is([a |-> 5, Z |-> FALSE, N |-> FALSE]), Instr,
            Is([a |-> 4, Z |-> FALSE, N |-> FALSE])>>)}

Unit_AND_ABSX ==
    {Test(<<k.LDX.IMM, 2, k.LDA.IMM, 5, k.AND.ABSX, 5, 0>>,
          <<Put(7, 4), Instr, Instr, Is([a |-> 5, Z |-> FALSE, N |-> FALSE]), Instr,
            Is([a |-> 4, Z |-> FALSE, N |-> FALSE])>>)}

Unit_AND_ABSY ==
    {Test(<<k.LDY.IMM, 2, k.LDA.IMM, 5, k.AND.ABSY, 5, 0>>,
          <<Put(7, 4), Instr, Instr, Is([a |-> 5, Z |-> FALSE, N |-> FALSE]), Cycles(4),
            Is([a |-> 4, Z |-> FALSE, N |-> FALSE])>>)}

Unit_AND_INDX ==
    {Test(<<k.LDX.IMM, 2, k.LDA.IMM, 5, k.AND.INDX, 5, 0>>,
          <<Put(7, 9), Put(9, 4), Instr, Instr, Is([a |-> 5, Z |-> FALSE, N |-> FALSE]),
            Instr, Is([a |-> 4, Z |-> FALSE, N |-> FALSE])>>)}

Unit_AND_INDY ==
    {Test(<<k.LDY.IMM, 2, k.LDA.IMM, 5, k.AND.INDY, 5, 0>>,
          <<Put(5, 7), Put(9, 4), Instr, Instr, Is([a |-> 5, Z |-> FALSE, N |-> FALSE]),
            Instr, Is([a |-> 4, Z |-> FALSE, N |-> FALSE])>>)}

Unit_ASL_A ==
    {Test(<<k.ASL.A>>,
          <<Is([a |-> 0, Z |-> FALSE, N |-> FALSE, C |-> FALSE]), Cycles(2),
            Is([a |-> 0, Z |-> TRUE, N |-> FALSE, C |-> FALSE])>>),
     Test(<<k.LDA.IMM, \h41, k.ASL.A>>,
          <<Instr, Is([a |-> \h41, Z |-> FALSE, N |-> FALSE, C |-> FALSE]), Cycles(2),
            Is([a |-> \h82, Z |-> FALSE, N |-> TRUE, C |-> FALSE])>>),
     Test(<<k.LDA.IMM, \hC1, k.LDX.IMM, 1, k.ASL.A>>,
          <<Instr, Instr, Is([a |-> \hC1, Z |-> FALSE, N |-> FALSE, C |-> FALSE]),
            Cycles(2), Is([a |-> \h82, Z |-> FALSE, N |-> TRUE, C |-> TRUE])>>)}

Unit_ASL_ZP ==
    {Test(<<k.ASL.ZP, 5>>,
          <<Is([a |-> 0, Z |-> FALSE, N |-> FALSE, C |-> FALSE]), Put(5, 0), Cycles(5),
            Mem(5, 0), Is([Z |-> TRUE, N |-> FALSE, C |-> FALSE])>>),
     Test(<<k.ASL.ZP, 5>>,
          <<Is([a |-> 0, Z |-> FALSE, N |-> FALSE, C |-> FALSE]), Put(5, \h40), Cycles(5),
            Mem(5, \h80), Is([Z |-> FALSE, N |-> TRUE, C |-> FALSE])>>),
     Test(<<k.ASL.ZP, 5>>,
          <<Is([a |-> 0, Z |-> FALSE, N |-> FALSE, C |-> FALSE]), Put(5, \h81), Cycles(5),
            Mem(5, 2), Is([Z |-> FALSE, N |-> FALSE, C |-> TRUE])>>)}

Unit_ASL_ZPX ==
    {Test(<<k.LDX.IMM, 2, k.ASL.ZPX, 5>>,
          <<Instr, Is([a |-> 0, Z |-> FALSE, N |-> FALSE, C |-> FALSE]), Put(7, \hC0),
            Cycles(6), Mem(7, \h80), Is([Z |-> FALSE, N |-> TRUE, C |-> TRUE])>>)}

Unit_ASL_ABS ==
    {Test(<<k.ASL.ABS, 5, 0>>,
          <<Is([Z |-> FALSE, N |-> FALSE, C |-> FALSE]), Put(5, \hC0), Cycles(6),
            Mem(5, \h80), Is([Z |-> FALSE, N |-> TRUE, C |-> TRUE])>>)}

Unit_ASL_ABSX ==
    {Test(<<k.LDX.IMM, 2, k.ASL.ABSX, 5, 0>>,
          <<Instr, Is([Z |-> FALSE, N |-> FALSE, C |-> FALSE]), Put(7, \hC0), Cycles(7),
            Mem(7, \h80), Is([Z |-> FALSE, N |-> TRUE, C |-> TRUE])>>)}

Unit_BIT_ZP ==
    LET bit(cond) == IF cond THEN 1 ELSE 0
    IN  {Test(<<k.LDA.IMM, 128 * bit(negative) + 64 * bit(overflow) + 1, k.STA.ZP, \h42,
                k.LDA.IMM, bit(~zero), k.BIT.ZP, \h42>>,
              <<Instr, Instr, Instr, Instr, Is([N |-> negative, V |-> overflow, Z |-> zero])>>) :
            negative \in BOOLEAN, overflow \in BOOLEAN, zero \in BOOLEAN}

Unit_BIT_ABS ==
    LET bit(cond) == IF cond THEN 1 ELSE 0
    IN  {Test(<<k.LDA.IMM, 128 * bit(negative) + 64 * bit(overflow) + 1, k.STA.ZP, \h42,
                k.LDA.IMM, bit(~zero), k.BIT.ABS, \h42, 0>>,
              <<Instr, Instr, Instr, Instr, Is([N |-> negative, V |-> overflow, Z |-> zero])>>) :
            negative \in BOOLEAN, overflow \in BOOLEAN, zero \in BOOLEAN}

Unit_CLC ==
    {Test(<<k.LDA.IMM, 1, k.ADC.IMM, \hFF, k.CLC.IMPL>>,
          <<Instr, Instr, Is([C |-> TRUE]), Cycles(2), Is([C |-> FALSE])>>)}

Unit_CLD ==
    {Test(<<k.SED.IMPL, k.CLD.IMPL>>,
          <<Instr, Is([D |-> TRUE]), Cycles(2), Is([D |-> FALSE])>>)}

Unit_CLI ==
    {Test(<<k.CLI.IMPL>>,
          <<Is([I |-> TRUE]), Cycles(2), Is([I |-> FALSE])>>)}

Unit_CLV ==
    {Test(<<k.LDA.IMM, \h7F, k.ADC.IMM, 1, k.CLV.IMPL>>,
          <<Instr, Instr, Is([V |-> TRUE]), Cycles(2), Is([V |-> FALSE])>>)}

Unit_EOR_IMM ==
    {Test(<<k.LDA.IMM, 5, k.EOR.IMM, 6>>,
          <<Instr, Is([a |-> 5, Z |-> FALSE, N |-> FALSE]), Cycles(2),
            Is([a |-> 3, Z |-> FALSE, N |-> FALSE])>>),
     Test(<<k.LDA.IMM, 5, k.EOR.IMM, \h86>>,
          <<Instr, Is([a |-> 5, Z |-> FALSE, N |-> FALSE]), Cycles(2),
            Is([a |-> \h83, Z |-> FALSE, N |-> TRUE])>>),
     Test(<<k.LDA.IMM, 5, k.EOR.IMM, 5>>,
          <<Instr, Is([a |-> 5, Z |-> FALSE, N |-> FALSE]), Cycles(2),
            Is([a |-> 0, Z |-> TRUE, N |-> FALSE])>>)}

Unit_EOR_ZP ==
    {Test(<<k.LDA.IMM, 5, k.EOR.ZP, 5>>,
          <<Instr, Cycles(2), Is([a |-> 5, Z |-> FALSE, N |-> FALSE]), Put(5, 6), Cycles(1),
            Is([a |-> 3, Z |-> FALSE, N |-> FALSE])>>),
     Test(<<k.LDA.IMM, 5, k.EOR.ZP, 5>>,
          <<Instr, Cycles(2), Is([a |-> 5, Z |-> FALSE, N |-> FALSE]), Put(5, \h86),
            Cycles(1), Is([a |-> \h83, Z |-> FALSE, N |-> TRUE])>>),
     Test(<<k.LDA.IMM, 5, k.EOR.ZP, 5>>,
          <<Instr, Cycles(2), Is([a |-> 5, Z |-> FALSE, N |-> FALSE]), Put(5, 5), Cycles(1),
            Is([a |-> 0, Z |-> TRUE, N |-> FALSE])>>)}

Unit_EOR_ZPX ==
    {Test(<<k.LDA.IMM, 5, k.LDX.IMM, 2, k.EOR.ZPX, 3>>,
          <<Instr, Instr, Cycles(3), Is([a |-> 5, Z |-> FALSE, N |-> FALSE]), Put(5, 6),
            Cycles(1), Is([a |-> 3, Z |-> FALSE, N |-> FALSE])>>),
     Test(<<k.LDA.IMM, 5, k.LDX.IMM, 2, k.EOR.ZPX, 3>>,
          <<Instr, Instr, Cycles(3), Is([a |-> 5, Z |-> FALSE, N |-> FALSE]), Put(5, \h86),
            Cycles(1), Is([a |-> \h83, Z |-> FALSE, N |-> TRUE])>>),
     Test(<<k.LDA.IMM, 5, k.LDX.IMM, 2, k.EOR.ZPX, 3>>,
          <<Instr, Instr, Cycles(3), Is([a |-> 5, Z |-> FALSE, N |-> FALSE]), Put(5, 5),
            Cycles(1), Is([a |-> 0, Z |-> TRUE, N |-> FALSE])>>)}

Unit_EOR_ABS ==
    {Test(<<k.LDA.IMM, 5, k.EOR.ABS, 5, 0>>,
          <<Instr, Cycles(3), Is([a |-> 5, Z |-> FALSE, N |-> FALSE]), Put(5, 6),
            Cycles(20), Is([a |-> 3, Z |-> FALSE, N |-> FALSE])>>),
     Test(<<k.LDA.IMM, 5, k.EOR.ABS, 5, 0>>,
          <<Instr, Cycles(3), Is([a |-> 5, Z |-> FALSE, N |-> FALSE]), Put(5, \h86),
            Cycles(1), Is([a |-> \h83, Z |-> FALSE, N |-> TRUE])>>),
     Test(<<k.LDA.IMM, 5, k.EOR.ABS, 5, 0>>,
          <<Instr, Cycles(3), Is([a |-> 5, Z |-> FALSE, N |-> FALSE]), Put(5, 5), Cycles(1),
            Is([a |-> 0, Z |-> TRUE, N |-> FALSE])>>)}

Unit_EOR_ABSX ==
    {Test(<<k.LDA.IMM, 5, k.LDX.IMM, 2, k.EOR.ABSX, 3, 0>>,
          <<Instr, Instr, Cycles(3), Is([a |-> 5, Z |-> FALSE, N |-> FALSE]), Put(5, 6),
            Cycles(20), Is([a |-> 3, Z |-> FALSE, N |-> FALSE])>>),
     Test(<<k.LDA.IMM, 5, k.LDX.IMM, 2, k.EOR.ABSX, 3, 0>>,
          <<Instr, Instr, Cycles(3), Is([a |-> 5, Z |-> FALSE, N |-> FALSE]), Put(5, \h86),
            Cycles(1), Is([a |-> \h83, Z |-> FALSE, N |-> TRUE])>>),
     Test(<<k.LDA.IMM, 5, k.LDX.IMM, 2, k.EOR.ABSX, 3, 0>>,
          <<Instr, Instr, Cycles(3), Is([a |-> 5, Z |-> FALSE, N |-> FALSE]), Put(5, 5),
            Cycles(1), Is([a |-> 0, Z |-> TRUE, N |-> FALSE])>>)}

Unit_EOR_ABSY ==
    {Test(<<k.LDA.IMM, 5, k.LDY.IMM, 2, k.EOR.ABSY, 3, 0>>,
          <<Instr, Instr, Cycles(3), Is([a |-> 5, Z |-> FALSE, N |-> FALSE]), Put(5, 6),
            Cycles(20), Is([a |-> 3, Z |-> FALSE, N |-> FALSE])>>),
     Test(<<k.LDA.IMM, 5, k.LDY.IMM, 2, k.EOR.ABSY, 3, 0>>,
          <<Instr, Instr, Cycles(3), Is([a |-> 5, Z |-> FALSE, N |-> FALSE]), Put(5, \h86),
            Cycles(1), Is([a |-> \h83, Z |-> FALSE, N |-> TRUE])>>),
     Test(<<k.LDA.IMM, 5, k.LDY.IMM, 2, k.EOR.ABSY, 3, 0>>,
          <<Instr, Instr, Cycles(3), Is([a |-> 5, Z |-> FALSE, N |-> FALSE]), Put(5, 5),
            Cycles(1), Is([a |-> 0, Z |-> TRUE, N |-> FALSE])>>)}

Unit_EOR_INDX ==
    {Test(<<k.LDA.IMM, 5, k.LDX.IMM, 2, k.EOR.INDX, 5, 0>>,
          <<Put(7, 5), Instr, Instr, Cycles(5), Is([a |-> 5, Z |-> FALSE, N |-> FALSE]),
            Put(5, 6), Cycles(1), Is([a |-> 3, Z |-> FALSE, N |-> FALSE])>>),
     Test(<<k.LDA.IMM, 5, k.LDX.IMM, 2, k.EOR.INDX, 5, 0>>,
          <<Put(7, 5), Instr, Instr, Cycles(5), Is([a |-> 5, Z |-> FALSE, N |-> FALSE]),
            Put(5, \h86), Cycles(1), Is([a |-> \h83, Z |-> FALSE, N |-> TRUE])>>),
     Test(<<k.LDA.IMM, 5, k.LDX.IMM, 2, k.EOR.INDX, 5, 0>>,
          <<Put(7, 5), Instr, Instr, Cycles(5), Is([a |-> 5, Z |-> FALSE, N |-> FALSE]),
            Put(5, 5), Cycles(1), Is([a |-> 0, Z |-> TRUE, N |-> FALSE])>>)}

Unit_EOR_INDY ==
    {Test(<<k.LDA.IMM, 5, k.LDY.IMM, 2, k.EOR.INDY, 7, 0>>,
          <<Put(7, 3), Instr, Instr, Cycles(4), Is([a |-> 5, Z |-> FALSE, N |-> FALSE]),
            Put(5, 6), Cycles(1), Is([a |-> 3, Z |-> FALSE, N |-> FALSE])>>),
     Test(<<k.LDA.IMM, 5, k.LDY.IMM, 2, k.EOR.INDY, 7, 0>>,
          <<Put(7, 3), Instr, Instr, Cycles(4), Is([a |-> 5, Z |-> FALSE, N |-> FALSE]),
            Put(5, \h86), Cycles(1), Is([a |-> \h83, Z |-> FALSE, N |-> TRUE])>>),
     Test(<<k.LDA.IMM, 5, k.LDY.IMM, 2, k.EOR.INDY, 7, 0>>,
          <<Put(7, 3), Instr, Instr, Cycles(4), Is([a |-> 5, Z |-> FALSE, N |-> FALSE]),
            Put(5, 5), Cycles(1), Is([a |-> 0, Z |-> TRUE, N |-> FALSE])>>)}

Unit_LSR_A ==
    {Test(<<k.LDA.IMM, 0, k.LDX.IMM, 2, k.LSR.A>>,
          <<Instr, Instr, Is([a |-> 0, Z |-> FALSE, N |-> FALSE, C |-> FALSE]), Cycles(2),
            Is([a |-> 0, Z |-> TRUE, N |-> FALSE, C |-> FALSE])>>),
     Test(<<k.LDA.IMM, \h80, k.LDX.IMM, 1, k.LSR.A>>,
          <<Instr, Instr, Is([a |-> \h80, Z |-> FALSE, N |-> FALSE, C |-> FALSE]),
            Cycles(2), Is([a |-> \h40, Z |-> FALSE, N |-> FALSE, C |-> FALSE])>>),
     Test(<<k.LDA.IMM, 3, k.LSR.A>>,
          <<Instr, Is([a |-> 3, Z |-> FALSE, N |-> FALSE, C |-> FALSE]), Cycles(2),
            Is([a |-> 1, Z |-> FALSE, N |-> FALSE, C |-> TRUE])>>)}

Unit_LSR_ZP ==
    {Test(<<k.LSR.ZP, 5>>,
          <<Is([a |-> 0, Z |-> FALSE, N |-> FALSE, C |-> FALSE]), Put(5, 0), Cycles(5),
            Mem(5, 0), Is([Z |-> TRUE, N |-> FALSE, C |-> FALSE])>>),
     Test(<<k.LSR.ZP, 5>>,
          <<Is([a |-> 0, Z |-> FALSE, N |-> FALSE, C |-> FALSE]), Put(5, \h80), Cycles(5),
            Mem(5, \h40), Is([Z |-> FALSE, N |-> FALSE, C |-> FALSE])>>),
     Test(<<k.LSR.ZP, 5>>,
          <<Is([a |-> 0, Z |-> FALSE, N |-> FALSE, C |-> FALSE]), Put(5, 3), Cycles(5),
            Mem(5, 1), Is([Z |-> FALSE, N |-> FALSE, C |-> TRUE])>>)}

Unit_LSR_ZPX ==
    {Test(<<k.LDX.IMM, 2, k.LSR.ZPX, 5>>,
          <<Instr, Is([Z |-> FALSE, N |-> FALSE, C |-> FALSE]), Put(7, \hC1), Cycles(6),
            Mem(7, \h60), Is([Z |-> FALSE, N |-> FALSE, C |-> TRUE])>>)}

Unit_LSR_ABS ==
    {Test(<<k.LSR.ABS, 7, 0>>,
          <<Is([Z |-> FALSE, N |-> FALSE, C |-> FALSE]), Put(7, \hC1), Cycles(6),
            Mem(7, \h60), Is([Z |-> FALSE, N |-> FALSE, C |-> TRUE])>>)}

Unit_LSR_ABSX ==
    {Test(<<k.LDX.IMM, 2, k.LSR.ABSX, 5, 0>>,
          <<Instr, Is([Z |-> FALSE, N |-> FALSE, C |-> FALSE]), Put(7, \hC1), Cycles(7),
            Mem(7, \h60), Is([Z |-> FALSE, N |-> FALSE, C |-> TRUE])>>)}

Unit_ORA_IMM ==
    {Test(<<k.LDA.IMM, 9, k.ORA.IMM, \h0C>>,
          <<Is([a |-> 0, Z |-> FALSE, N |-> FALSE]), Cycles(3),
            Is([a |-> 9, Z |-> FALSE, N |-> FALSE]), Cycles(1),
            Is([a |-> \h0D, Z |-> FALSE, N |-> FALSE])>>),
     Test(<<k.LDA.IMM, 9, k.ORA.IMM, \h8C>>,
          <<Cycles(3), Is([a |-> 9, Z |-> FALSE, N |-> FALSE]), Cycles(1),
            Is([a |-> \h8D, Z |-> FALSE, N |-> TRUE])>>),
     Test(<<k.LDA.IMM, 0, k.ORA.IMM, 0>>,
          <<Cycles(3), Is([a |-> 0, Z |-> TRUE, N |-> FALSE]), Cycles(1),
            Is([a |-> 0, Z |-> TRUE, N |-> FALSE])>>)}

Unit_ORA_ZP ==
    {Test(<<k.LDA.IMM, \h39, k.ORA.ZP, \h10>>,
          <<Instr, Cycles(2), Is([a |-> \h39, Z |-> FALSE, N |-> FALSE]), Put(\h10, \h64),
            Cycles(1), Is([a |-> \h7D, Z |-> FALSE, N |-> FALSE])>>),
     Test(<<k.LDA.IMM, \h39, k.ORA.ZP, \h10>>,
          <<Instr, Cycles(2), Is([a |-> \h39, Z |-> FALSE, N |-> FALSE]), Put(\h10, \h84),
            Cycles(1), Is([a |-> \hBD, Z |-> FALSE, N |-> TRUE])>>)}

Unit_ORA_ZPX ==
    {Test(<<k.LDX.IMM, 1, k.LDA.IMM, \h39, k.ORA.ZPX, \h0F>>,
          <<Instr, Instr, Cycles(3), Is([a |-> \h39, Z |-> FALSE, N |-> FALSE]),
            Put(\h10, \h64), Cycles(1), Is([a |-> \h7D, Z |-> FALSE, N |-> FALSE])>>),
     Test(<<k.LDX.IMM, 1, k.LDA.IMM, \h39, k.ORA.ZPX, \h0F>>,
          <<Instr, Instr, Cycles(3), Is([a |-> \h39, Z |-> FALSE, N |-> FALSE]),
            Put(\h10, \h84), Cycles(1), Is([a |-> \hBD, Z |-> FALSE, N |-> TRUE])>>)}

Unit_ORA_ABS ==
    {Test(<<k.LDA.IMM, \h39, k.ORA.ABS, \h10, 0>>,
          <<Instr, Cycles(3), Is([a |-> \h39, Z |-> FALSE, N |-> FALSE]), Put(\h10, \h64),
            Cycles(1), Is([a |-> \h7D, Z |-> FALSE, N |-> FALSE])>>),
     Test(<<k.LDA.IMM, \h39, k.ORA.ABS, \h10, 0>>,
          <<Instr, Cycles(3), Is([a |-> \h39, Z |-> FALSE, N |-> FALSE]), Put(\h10, \h84),
            Cycles(1), Is([a |-> \hBD, Z |-> FALSE, N |-> TRUE])>>)}

Unit_ORA_ABSX ==
    {Test(<<k.LDX.IMM, 1, k.LDA.IMM, \h39, k.ORA.ABSX, \h0F, 0>>,
          <<Instr, Instr, Cycles(3), Is([a |-> \h39, Z |-> FALSE, N |-> FALSE]),
            Put(\h10, \h64), Cycles(1), Is([a |-> \h7D, Z |-> FALSE, N |-> FALSE])>>),
     Test(<<k.LDX.IMM, 1, k.LDA.IMM, \h39, k.ORA.ABSX, \h0F, 0>>,
          <<Instr, Instr, Cycles(3), Is([a |-> \h39, Z |-> FALSE, N |-> FALSE]),
            Put(\h10, \h84), Cycles(1), Is([a |-> \hBD, Z |-> FALSE, N |-> TRUE])>>)}

Unit_ORA_ABSY ==
    {Test(<<k.LDY.IMM, 1, k.LDA.IMM, \h39, k.ORA.ABSY, \h0F, 0>>,
          <<Instr, Instr, Cycles(3), Is([a |-> \h39, Z |-> FALSE, N |-> FALSE]),
            Put(\h10, \h64), Cycles(1), Is([a |-> \h7D, Z |-> FALSE, N |-> FALSE])>>),
     Test(<<k.LDY.IMM, 1, k.LDA.IMM, \h39, k.ORA.ABSY, \h0F, 0>>,
          <<Instr, Instr, Cycles(3), Is([a |-> \h39, Z |-> FALSE, N |-> FALSE]),
            Put(\h10, \h84), Cycles(1), Is([a |-> \hBD, Z |-> FALSE, N |-> TRUE])>>)}

Unit_ORA_INDX ==
    {Test(<<k.LDX.IMM, 1, k.LDA.IMM, \h39, k.ORA.INDX, 3, 0>>,
          <<Put(4, \h10), Instr, Instr, Cycles(5),
            Is([a |-> \h39, Z |-> FALSE, N |-> FALSE]), Put(\h10, \h64), Cycles(1),
            Is([a |-> \h7D, Z |-> FALSE, N |-> FALSE])>>),
     Test(<<k.LDX.IMM, 1, k.LDA.IMM, \h39, k.ORA.INDX, 3, 0>>,
          <<Put(4, \h10), Instr, Instr, Cycles(5),
            Is([a |-> \h39, Z |-> FALSE, N |-> FALSE]), Put(\h10, \h84), Cycles(1),
            Is([a |-> \hBD, Z |-> FALSE, N |-> TRUE])>>)}

Unit_ORA_INDY ==
    {Test(<<k.LDY.IMM, 1, k.LDA.IMM, \h39, k.ORA.INDY, 3, 0>>,
          <<Put(3, \h0F), Instr, Instr, Cycles(4),
            Is([a |-> \h39, Z |-> FALSE, N |-> FALSE]), Put(\h10, \h64), Cycles(1),
            Is([a |-> \h7D, Z |-> FALSE, N |-> FALSE])>>),
     Test(<<k.LDY.IMM, 1, k.LDA.IMM, \h39, k.ORA.INDY, 3, 0>>,
          <<Put(3, \h0F), Instr, Instr, Cycles(4),
            Is([a |-> \h39, Z |-> FALSE, N |-> FALSE]), Put(\h10, \h84), Cycles(1),
            Is([a |-> \hBD, Z |-> FALSE, N |-> TRUE])>>)}

Unit_ROL_A ==
    {Test(<<k.SEC.IMPL, k.LDA.IMM, 0, k.ROL.A>>,
          <<Instr, Instr, Is([C |-> TRUE, a |-> 0]), Instr,
            Is([a |-> 1, C |-> FALSE, Z |-> FALSE, N |-> FALSE])>>),
     Test(<<k.LDA.IMM, \hFF, k.ROL.A>>,
          <<Is([C |-> FALSE]), Instr, Instr, Is([a |-> \hFE, C |-> TRUE, Z |-> FALSE])>>),
     Test(<<k.LDA.IMM, 0, k.ROL.A>>,
          <<Is([C |-> FALSE]), Instr, Instr, Is([a |-> 0, C |-> FALSE, Z |-> TRUE])>>)}

Unit_ROL_ZP ==
    {Test(<<k.SEC.IMPL, k.ROL.ZP, 5>>,
          <<Instr, Cycles(4), Is([C |-> TRUE, a |-> 0]), Put(5, 0), Cycles(1), Mem(5, 1),
            Is([C |-> FALSE, Z |-> FALSE, N |-> FALSE])>>),
     Test(<<k.ROL.ZP, 5>>,
          <<Cycles(4), Is([C |-> FALSE]), Put(5, \hFF), Cycles(1), Mem(5, \hFE),
            Is([C |-> TRUE, Z |-> FALSE])>>),
     Test(<<k.ROL.ZP, 5>>,
          <<Cycles(4), Is([C |-> FALSE]), Put(5, 0), Cycles(1), Mem(5, 0),
            Is([C |-> FALSE, Z |-> TRUE])>>)}

Unit_ROL_ZPX ==
    {Test(<<k.SEC.IMPL, k.LDX.IMM, 2, k.ROL.ZPX, 3>>,
          <<Put(5, \hAA), Instr, Instr, Cycles(5), Is([C |-> TRUE]), Mem(5, \hAA),
            Cycles(1), Mem(5, \h55), Is([C |-> TRUE, Z |-> FALSE])>>)}

Unit_ROL_ABS ==
    {Test(<<k.SEC.IMPL, k.ROL.ABS, 5, 0>>,
          <<Put(5, \hAA), Instr, Cycles(5), Is([C |-> TRUE]), Mem(5, \hAA), Cycles(1),
            Mem(5, \h55), Is([C |-> TRUE, Z |-> FALSE])>>)}

Unit_ROL_ABSX ==
    {Test(<<k.SEC.IMPL, k.LDX.IMM, 2, k.ROL.ABSX, 3, 0>>,
          <<Put(5, \hAA), Instr, Instr, Cycles(6), Is([C |-> TRUE]), Mem(5, \hAA),
            Cycles(1), Mem(5, \h55), Is([C |-> TRUE, Z |-> FALSE])>>)}

Unit_ROR_A ==
    {Test(<<k.SEC.IMPL, k.LDA.IMM, 0, k.ROR.A>>,
          <<Instr, Instr, Is([C |-> TRUE, a |-> 0]), Instr,
            Is([a |-> \h80, C |-> FALSE, Z |-> FALSE, N |-> TRUE])>>),
     Test(<<k.LDA.IMM, \hFF, k.ROR.A>>,
          <<Is([C |-> FALSE]), Instr, Instr,
            Is([a |-> \h7F, C |-> TRUE, Z |-> FALSE, N |-> FALSE])>>)}

Unit_ROR_ZP ==
    {Test(<<k.SEC.IMPL, k.ROR.ZP, 5>>,
          <<Instr, Cycles(4), Is([C |-> TRUE]), Mem(5, 0), Put(5, 0), Cycles(1),
            Mem(5, \h80), Is([C |-> FALSE, Z |-> FALSE, N |-> TRUE])>>),
     Test(<<k.ROR.ZP, 5>>,
          <<Cycles(4), Is([C |-> FALSE]), Put(5, \hFF), Cycles(1), Mem(5, \h7F),
            Is([C |-> TRUE, Z |-> FALSE])>>),
     Test(<<k.ROR.ZP, 5>>,
          <<Cycles(4), Is([C |-> FALSE]), Put(5, 0), Cycles(1), Mem(5, 0),
            Is([C |-> FALSE, Z |-> TRUE])>>)}

Unit_ROR_ZPX ==
    {Test(<<k.SEC.IMPL, k.LDX.IMM, 2, k.ROR.ZPX, 3>>,
          <<Put(5, \hAB), Instr, Instr, Cycles(5), Is([C |-> TRUE]), Mem(5, \hAB),
            Cycles(1), Mem(5, \hD5), Is([C |-> TRUE, Z |-> FALSE])>>)}

Unit_ROR_ABS ==
    {Test(<<k.SEC.IMPL, k.ROR.ABS, 5, 0>>,
          <<Put(5, \hAB), Instr, Cycles(5), Is([C |-> TRUE]), Mem(5, \hAB), Cycles(1),
            Mem(5, \hD5), Is([C |-> TRUE, Z |-> FALSE])>>)}

Unit_ROR_ABSX ==
    {Test(<<k.SEC.IMPL, k.LDX.IMM, 2, k.ROR.ABSX, 3, 0>>,
          <<Put(5, \hAB), Instr, Instr, Cycles(6), Is([C |-> TRUE]), Mem(5, \hAB),
            Cycles(1), Mem(5, \hD5), Is([C |-> TRUE, Z |-> FALSE])>>)}

Unit_SEC ==
    {Test(<<k.SEC.IMPL>>,
          <<Is([C |-> FALSE]), Cycles(2), Is([C |-> TRUE])>>)}

Unit_SED ==
    {Test(<<k.SED.IMPL>>,
          <<Is([D |-> FALSE]), Cycles(2), Is([D |-> TRUE])>>)}

Unit_SEI ==
    {Test(<<k.CLI.IMPL, k.SEI.IMPL>>,
          <<Is([I |-> TRUE]), Instr, Is([I |-> FALSE]), Cycles(2), Is([I |-> TRUE])>>)}
=============================================================================
