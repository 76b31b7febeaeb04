---------------------------- MODULE UnitsMoves -----------------------------
(***************************************************************************)
(* The unit tests (app/test-cpu.cpp) of                                    *)
(* memory, loads, stores and transfers.                                    *)
(* A TEST_CASE is the set of tests that its sections, or the values it     *)
(* generates, make.                                                        *)
(***************************************************************************)
EXTENDS Isa, Script

\* What most of the cases store or move.
Datum == {0, 1, 5, \h10, \h66, \hAA, \hFF}

trivial_load_and_store ==
    {Test(<<k.LDA.IMM, 1, k.STA.ZP, 0, k.LDA.IMM, 2, k.LDA.ZP, 0>>,
          <<Is([pc |-> \h8000, a |-> 0]), Cycles(1), Is([pc |-> \h8000, a |-> 0]),
            Cycles(1), Is([pc |-> \h8002, a |-> 1]), Mem(0, 0), Cycles(1),
            Is([pc |-> \h8002, a |-> 1]), Cycles(1), Is([pc |-> \h8002, a |-> 1]),
            Cycles(1), Is([pc |-> \h8004, a |-> 1]), Mem(0, 1), Cycles(1),
            Is([pc |-> \h8004, a |-> 1]), Cycles(1), Is([pc |-> \h8006, a |-> 2]),
            Cycles(1), Is([pc |-> \h8006, a |-> 2]), Cycles(1),
            Is([pc |-> \h8006, a |-> 2]), Cycles(1), Is([pc |-> \h8008, a |-> 1])>>)}

trivial_memory ==
    {Test(<<>>,
          <<Mem(0, 0), Put(\h0800, 123), Mem(0, 123), Put16(\h0900, 12345), Mem16(\h0100, 12345)>>)}

Unit_LDA_IMM ==
    {Test(<<k.LDA.IMM, 9>>,
          <<Cycles(1), Is([a |-> 0, Z |-> FALSE, N |-> FALSE]), Cycles(1),
            Is([a |-> 9, Z |-> FALSE, N |-> FALSE])>>),
     Test(<<k.LDA.IMM, \h91>>,
          <<Cycles(1), Is([a |-> 0, Z |-> FALSE, N |-> FALSE]), Cycles(1),
            Is([a |-> \h91, Z |-> FALSE, N |-> TRUE])>>),
     Test(<<k.LDA.IMM, 0>>,
          <<Cycles(1), Is([a |-> 0, Z |-> FALSE, N |-> FALSE]), Cycles(1),
            Is([a |-> 0, Z |-> TRUE, N |-> FALSE])>>)}

Unit_LDA_ZP ==
    {Test(<<k.LDA.ZP, 5>>,
          <<Cycles(2), Is([a |-> 0, Z |-> FALSE, N |-> FALSE]), Put(5, 9), Cycles(1),
            Is([a |-> 9, Z |-> FALSE, N |-> FALSE])>>),
     Test(<<k.LDA.ZP, 5>>,
          <<Cycles(2), Is([a |-> 0, Z |-> FALSE, N |-> FALSE]), Put(5, \h91), Cycles(1),
            Is([a |-> \h91, Z |-> FALSE, N |-> TRUE])>>),
     Test(<<k.LDA.ZP, 5>>,
          <<Cycles(2), Is([a |-> 0, Z |-> FALSE, N |-> FALSE]), Put(5, 0), Cycles(1),
            Is([a |-> 0, Z |-> TRUE, N |-> FALSE])>>)}

Unit_LDA_ZPX ==
    LET From(v, zero, negative) ==
          Test(<<k.LDX.IMM, 2, k.LDA.ZPX, 5>>,
               <<Cycles(5), Is([a |-> 0, x |-> 2, Z |-> FALSE, N |-> FALSE]), Put(7, v), Cycles(1),
                 Is([a |-> v, Z |-> zero, N |-> negative])>>)
        WrapAround ==
          Test(<<k.LDX.IMM, \hFF, k.LDA.ZPX, 5>>,
               <<Put(4, \h42), Cycles(6), Is([a |-> \h42, Z |-> FALSE, N |-> FALSE])>>)
    IN  {From(9, FALSE, FALSE), From(\h91, FALSE, TRUE), From(0, TRUE, FALSE), WrapAround}

Unit_LDA_ABS ==
    {Test(<<k.LDA.ABS, 2, 0>>,
          <<Cycles(3), Is([a |-> 0, Z |-> FALSE, N |-> FALSE]), Put(2, 9), Cycles(1),
            Is([a |-> 9, Z |-> FALSE, N |-> FALSE])>>),
     Test(<<k.LDA.ABS, 2, 0>>,
          <<Cycles(3), Is([a |-> 0, Z |-> FALSE, N |-> FALSE]), Put(2, \h91), Cycles(1),
            Is([a |-> \h91, Z |-> FALSE, N |-> TRUE])>>),
     Test(<<k.LDA.ABS, 2, 0>>,
          <<Cycles(3), Is([a |-> 0, Z |-> FALSE, N |-> FALSE]), Put(2, 0), Cycles(1),
            Is([a |-> 0, Z |-> TRUE, N |-> FALSE])>>)}

Unit_LDA_ABSX ==
    {Test(<<k.LDX.IMM, 1, k.LDA.ABSX, 4, 0>>,
          <<Cycles(5), Is([x |-> 1, a |-> 0, Z |-> FALSE, N |-> FALSE]), Put(5, 9),
            Cycles(1), Is([a |-> 9, Z |-> FALSE, N |-> FALSE])>>),
     Test(<<k.LDX.IMM, 1, k.LDA.ABSX, 4, 0>>,
          <<Cycles(5), Is([x |-> 1, a |-> 0, Z |-> FALSE, N |-> FALSE]), Put(5, \h91),
            Cycles(1), Is([a |-> \h91, Z |-> FALSE, N |-> TRUE])>>),
     Test(<<k.LDX.IMM, 1, k.LDA.ABSX, 4, 0>>,
          <<Cycles(5), Is([x |-> 1, a |-> 0, Z |-> FALSE, N |-> FALSE]), Put(5, 0),
            Cycles(1), Is([a |-> 0, Z |-> TRUE, N |-> FALSE])>>),
     Test(<<k.LDX.IMM, 1, k.LDA.ABSX, \hFF, 1>>,
          <<Cycles(6), Is([a |-> 0, Z |-> FALSE, N |-> FALSE]), Put(\h0200, 9), Cycles(1),
            Is([a |-> 9, Z |-> FALSE, N |-> FALSE])>>)}

Unit_LDA_ABSY ==
    {Test(<<k.LDY.IMM, 1, k.LDA.ABSY, 4, 0>>,
          <<Cycles(5), Is([y |-> 1, a |-> 0, Z |-> FALSE, N |-> FALSE]), Put(5, 9),
            Cycles(1), Is([a |-> 9, Z |-> FALSE, N |-> FALSE])>>),
     Test(<<k.LDY.IMM, 1, k.LDA.ABSY, 4, 0>>,
          <<Cycles(5), Is([y |-> 1, a |-> 0, Z |-> FALSE, N |-> FALSE]), Put(5, \h91),
            Cycles(1), Is([a |-> \h91, Z |-> FALSE, N |-> TRUE])>>),
     Test(<<k.LDY.IMM, 1, k.LDA.ABSY, 4, 0>>,
          <<Cycles(5), Is([y |-> 1, a |-> 0, Z |-> FALSE, N |-> FALSE]), Put(5, 0),
            Cycles(1), Is([a |-> 0, Z |-> TRUE, N |-> FALSE])>>),
     Test(<<k.LDY.IMM, 1, k.LDA.ABSY, \hFF, 1>>,
          <<Cycles(6), Is([a |-> 0, Z |-> FALSE, N |-> FALSE]), Put(\h0200, 9), Cycles(1),
            Is([a |-> 9, Z |-> FALSE, N |-> FALSE])>>)}

Unit_LDA_INDX ==
    {Test(<<k.LDX.IMM, 1, k.LDA.INDX, 4, 0>>,
          <<Cycles(7), Put(5, 7), Is([x |-> 1, a |-> 0, Z |-> FALSE, N |-> FALSE]),
            Put(7, 9), Cycles(1), Is([a |-> 9, Z |-> FALSE, N |-> FALSE])>>),
     Test(<<k.LDX.IMM, 1, k.LDA.INDX, 4, 0>>,
          <<Cycles(7), Put(5, 7), Is([x |-> 1, a |-> 0, Z |-> FALSE, N |-> FALSE]),
            Put(7, \h91), Cycles(1), Is([a |-> \h91, Z |-> FALSE, N |-> TRUE])>>),
     Test(<<k.LDX.IMM, 1, k.LDA.INDX, 4, 0>>,
          <<Cycles(7), Put(5, 7), Is([x |-> 1, a |-> 0, Z |-> FALSE, N |-> FALSE]),
            Put(7, 0), Cycles(1), Is([a |-> 0, Z |-> TRUE, N |-> FALSE])>>)}

Unit_LDA_INDY ==
    {Test(<<k.LDY.IMM, 1, k.LDA.INDY, 5, 0>>,
          <<Cycles(6), Put(5, 6), Is([y |-> 1, a |-> 0, Z |-> FALSE, N |-> FALSE]),
            Put(7, 9), Cycles(1), Is([a |-> 9, Z |-> FALSE, N |-> FALSE])>>),
     Test(<<k.LDY.IMM, 1, k.LDA.INDY, 5, 0>>,
          <<Cycles(6), Put(5, 6), Is([y |-> 1, a |-> 0, Z |-> FALSE, N |-> FALSE]),
            Put(7, \h91), Cycles(1), Is([a |-> \h91, Z |-> FALSE, N |-> TRUE])>>),
     Test(<<k.LDY.IMM, 1, k.LDA.INDY, 5, 0>>,
          <<Cycles(6), Put(5, 6), Is([y |-> 1, a |-> 0, Z |-> FALSE, N |-> FALSE]),
            Put(7, 0), Cycles(1), Is([a |-> 0, Z |-> TRUE, N |-> FALSE])>>)}

Unit_LDX_IMM ==
    {Test(<<k.LDX.IMM, 9>>,
          <<Cycles(1), Is([x |-> 0, Z |-> FALSE, N |-> FALSE]), Cycles(1),
            Is([x |-> 9, Z |-> FALSE, N |-> FALSE])>>),
     Test(<<k.LDX.IMM, \h91>>,
          <<Cycles(1), Is([x |-> 0, Z |-> FALSE, N |-> FALSE]), Cycles(1),
            Is([x |-> \h91, Z |-> FALSE, N |-> TRUE])>>),
     Test(<<k.LDX.IMM, 0>>,
          <<Cycles(1), Is([x |-> 0, Z |-> FALSE, N |-> FALSE]), Cycles(1),
            Is([x |-> 0, Z |-> TRUE, N |-> FALSE])>>)}

Unit_LDX_ZP ==
    {Test(<<k.LDX.ZP, 5>>,
          <<Cycles(2), Is([x |-> 0, Z |-> FALSE, N |-> FALSE]), Put(5, 9), Cycles(1),
            Is([x |-> 9, Z |-> FALSE, N |-> FALSE])>>),
     Test(<<k.LDX.ZP, 5>>,
          <<Cycles(2), Is([x |-> 0, Z |-> FALSE, N |-> FALSE]), Put(5, \h91), Cycles(1),
            Is([x |-> \h91, Z |-> FALSE, N |-> TRUE])>>),
     Test(<<k.LDX.ZP, 5>>,
          <<Cycles(2), Is([x |-> 0, Z |-> FALSE, N |-> FALSE]), Put(5, 0), Cycles(1),
            Is([x |-> 0, Z |-> TRUE, N |-> FALSE])>>)}

Unit_LDX_ZPY ==
    {Test(<<k.LDX.ZPY, 5>>,
          <<Cycles(3), Is([x |-> 0, Z |-> FALSE, N |-> FALSE]), Put(5, 9), Cycles(1),
            Is([x |-> 9, Z |-> FALSE, N |-> FALSE])>>),
     Test(<<k.LDX.ZPY, 5>>,
          <<Cycles(3), Is([x |-> 0, Z |-> FALSE, N |-> FALSE]), Put(5, \h91), Cycles(1),
            Is([x |-> \h91, Z |-> FALSE, N |-> TRUE])>>),
     Test(<<k.LDX.ZPY, 5>>,
          <<Cycles(3), Is([x |-> 0, Z |-> FALSE, N |-> FALSE]), Put(5, 0), Cycles(1),
            Is([x |-> 0, Z |-> TRUE, N |-> FALSE])>>)}

Unit_LDX_ABS ==
    {Test(<<k.LDX.ABS, 5, 0>>,
          <<Cycles(3), Is([x |-> 0, Z |-> FALSE, N |-> FALSE]), Put(5, 9), Cycles(1),
            Is([x |-> 9, Z |-> FALSE, N |-> FALSE])>>),
     Test(<<k.LDX.ABS, 5, 0>>,
          <<Cycles(3), Is([x |-> 0, Z |-> FALSE, N |-> FALSE]), Put(5, \h91), Cycles(1),
            Is([x |-> \h91, Z |-> FALSE, N |-> TRUE])>>),
     Test(<<k.LDX.ABS, 5, 0>>,
          <<Cycles(3), Is([x |-> 0, Z |-> FALSE, N |-> FALSE]), Put(5, 0), Cycles(1),
            Is([x |-> 0, Z |-> TRUE, N |-> FALSE])>>)}

Unit_LDX_ABSY ==
    {Test(<<k.LDX.ABSY, 5, 0>>,
          <<Cycles(3), Is([x |-> 0, Z |-> FALSE, N |-> FALSE]), Put(5, 9), Cycles(1),
            Is([x |-> 9, Z |-> FALSE, N |-> FALSE])>>),
     Test(<<k.LDX.ABSY, 5, 0>>,
          <<Cycles(3), Is([x |-> 0, Z |-> FALSE, N |-> FALSE]), Put(5, \h91), Cycles(1),
            Is([x |-> \h91, Z |-> FALSE, N |-> TRUE])>>),
     Test(<<k.LDX.ABSY, 5, 0>>,
          <<Cycles(3), Is([x |-> 0, Z |-> FALSE, N |-> FALSE]), Put(5, 0), Cycles(1),
            Is([x |-> 0, Z |-> TRUE, N |-> FALSE])>>),
     Test(<<k.LDY.IMM, 1, k.LDX.ABSY, \hFF, 1>>,
          <<Cycles(6), Is([x |-> 0, Z |-> FALSE, N |-> FALSE]), Put(\h0200, 9), Cycles(1),
            Is([x |-> 9, Z |-> FALSE, N |-> FALSE])>>)}

Unit_LDY_IMM ==
    {Test(<<k.LDY.IMM, 9>>,
          <<Cycles(1), Is([y |-> 0, Z |-> FALSE, N |-> FALSE]), Cycles(1),
            Is([y |-> 9, Z |-> FALSE, N |-> FALSE])>>),
     Test(<<k.LDY.IMM, \h91>>,
          <<Cycles(1), Is([y |-> 0, Z |-> FALSE, N |-> FALSE]), Cycles(1),
            Is([y |-> \h91, Z |-> FALSE, N |-> TRUE])>>),
     Test(<<k.LDY.IMM, 0>>,
          <<Cycles(1), Is([y |-> 0, Z |-> FALSE, N |-> FALSE]), Cycles(1),
            Is([y |-> 0, Z |-> TRUE, N |-> FALSE])>>)}

Unit_LDY_ZP ==
    {Test(<<k.LDY.ZP, 5>>,
          <<Cycles(2), Is([y |-> 0, Z |-> FALSE, N |-> FALSE]), Put(5, 9), Cycles(1),
            Is([y |-> 9, Z |-> FALSE, N |-> FALSE])>>),
     Test(<<k.LDY.ZP, 5>>,
          <<Cycles(2), Is([y |-> 0, Z |-> FALSE, N |-> FALSE]), Put(5, \h91), Cycles(1),
            Is([y |-> \h91, Z |-> FALSE, N |-> TRUE])>>),
     Test(<<k.LDY.ZP, 5>>,
          <<Cycles(2), Is([y |-> 0, Z |-> FALSE, N |-> FALSE]), Put(5, 0), Cycles(1),
            Is([y |-> 0, Z |-> TRUE, N |-> FALSE])>>)}

Unit_LDY_ZPX ==
    LET From(v, zero, negative) ==
          Test(<<k.LDX.IMM, 2, k.LDY.ZPX, 5>>,
               <<Cycles(5), Is([y |-> 0, x |-> 2, Z |-> FALSE, N |-> FALSE]), Put(7, v), Cycles(1),
                 Is([y |-> v, Z |-> zero, N |-> negative])>>)
        WrapAround ==
          Test(<<k.LDX.IMM, \hFF, k.LDY.ZPX, 5>>,
               <<Put(4, \h42), Cycles(6), Is([y |-> \h42, Z |-> FALSE, N |-> FALSE])>>)
    IN  {From(9, FALSE, FALSE), From(\h91, FALSE, TRUE), From(0, TRUE, FALSE), WrapAround}

Unit_LDY_ABS ==
    {Test(<<k.LDY.ABS, 5, 0>>,
          <<Cycles(3), Is([y |-> 0, Z |-> FALSE, N |-> FALSE]), Put(5, 9), Cycles(1),
            Is([y |-> 9, Z |-> FALSE, N |-> FALSE])>>),
     Test(<<k.LDY.ABS, 5, 0>>,
          <<Cycles(3), Is([y |-> 0, Z |-> FALSE, N |-> FALSE]), Put(5, \h91), Cycles(1),
            Is([y |-> \h91, Z |-> FALSE, N |-> TRUE])>>),
     Test(<<k.LDY.ABS, 5, 0>>,
          <<Cycles(3), Is([y |-> 0, Z |-> FALSE, N |-> FALSE]), Put(5, 0), Cycles(1),
            Is([y |-> 0, Z |-> TRUE, N |-> FALSE])>>)}

Unit_LDY_ABSX ==
    {Test(<<k.LDX.IMM, 1, k.LDY.ABSX, 4, 0>>,
          <<Cycles(5), Is([y |-> 0, Z |-> FALSE, N |-> FALSE]), Put(5, 9), Cycles(1),
            Is([y |-> 9, Z |-> FALSE, N |-> FALSE])>>),
     Test(<<k.LDX.IMM, 1, k.LDY.ABSX, 4, 0>>,
          <<Cycles(5), Is([y |-> 0, Z |-> FALSE, N |-> FALSE]), Put(5, \h91), Cycles(1),
            Is([y |-> \h91, Z |-> FALSE, N |-> TRUE])>>),
     Test(<<k.LDX.IMM, 1, k.LDY.ABSX, 4, 0>>,
          <<Cycles(5), Is([y |-> 0, Z |-> FALSE, N |-> FALSE]), Put(5, 0), Cycles(1),
            Is([y |-> 0, Z |-> TRUE, N |-> FALSE])>>),
     Test(<<k.LDX.IMM, 1, k.LDY.ABSX, \hFF, 1>>,
          <<Cycles(6), Is([y |-> 0, Z |-> FALSE, N |-> FALSE]), Put(\h0200, 9), Cycles(1),
            Is([y |-> 9, Z |-> FALSE, N |-> FALSE])>>)}

Unit_STA_ZP ==
    {Test(<<k.LDA.IMM, data, k.STA.ZP, addr>>,
          <<Put(addr, Lo(data + 1)), Cycles(2), Is([a |-> data]), Mark, Cycles(3), Mem(addr, data),
            Is([a |-> data]), SameFlags>>) :
        addr \in Datum, data \in Datum}

Unit_STA_ZPX ==
    {Test(<<k.LDA.IMM, data, k.LDX.IMM, offset, k.STA.ZPX, addr>>,
          <<Put(addr + offset, Lo(data + 1)), Cycles(2), Is([a |-> data]), Cycles(2),
            Is([x |-> offset]), Cycles(4), Mem(addr + offset, data)>>) :
        addr \in {0, 1, 5, \h10, \h66, \hAA, \hFA}, data \in Datum, offset \in {0, 1, 5}}

Unit_STA_ABS ==
    {Test(<<k.LDA.IMM, data, k.STA.ABS, Lo(addr), Hi(addr)>>,
          <<Put(addr, Lo(data + 1)), Cycles(2), Is([a |-> data]), Cycles(4), Mem(addr, data)>>) :
        addr \in {0, 1, \hFF, \h0100, \h1000, \h1FFF}, data \in Datum}

Unit_STA_ABSX ==
    {Test(<<k.LDA.IMM, data, k.LDX.IMM, offset, k.STA.ABSX, Lo(addr), Hi(addr)>>,
          <<Put(addr + offset, Lo(data + 1)), Cycles(2), Is([a |-> data]), Cycles(2),
            Is([x |-> offset]), Cycles(5), Mem(addr + offset, data)>>) :
        addr \in {\h13, \h15, \hFF, \h0100, \h1000, \h1FFA}, data \in Datum, offset \in {0, 1, 5}}

Unit_STA_ABSY ==
    {Test(<<k.LDA.IMM, data, k.LDY.IMM, offset, k.STA.ABSY, Lo(addr), Hi(addr)>>,
          <<Put(addr + offset, Lo(data + 1)), Cycles(2), Is([a |-> data]), Cycles(2),
            Is([y |-> offset]), Cycles(5), Mem(addr + offset, data)>>) :
        addr \in {0, 1, \hFF, \h0100, \h1000, \h1FFA}, data \in Datum, offset \in {0, 1, 5}}

Unit_STA_INDX ==
    {Test(<<k.LDA.IMM, data, k.LDX.IMM, offset, k.STA.INDX, zp_addr>>,
          <<Put16(zp_addr + offset, addr), Cycles(2), Is([a |-> data]), Cycles(2),
            Is([x |-> offset]), Cycles(6), Mem(addr, data)>>) :
        zp_addr \in {0, 1, 5, \h10, \h66, \hAA, \hEF},
        addr \in {\h0E, \h23, \hFA, \h0100, \h1000, \h1111, \h1FFE},
        data \in Datum, offset \in {0, 1, 5, \h10}}

Unit_STA_INDY ==
    {Test(<<k.LDA.IMM, data, k.LDY.IMM, offset, k.STA.INDY, zp_addr>>,
          <<Put16(zp_addr, addr), Cycles(2), Is([a |-> data]), Cycles(2),
            Is([y |-> offset]), Cycles(6), Mem(addr + offset, data)>>) :
        zp_addr \in {0, 1, 5, \h10, \h66, \hAA, \hFF},
        addr \in {\h0E, \h23, \hFA, \h0100, \h1000, \h1111, \h1FEE},
        data \in Datum, offset \in {0, 1, 5, \h10}}

Unit_STX_ZP ==
    {Test(<<k.LDX.IMM, data, k.STX.ZP, addr>>,
          <<Put(addr, Lo(data + 1)), Cycles(2), Is([x |-> data]), Mark, Cycles(3), Mem(addr, data),
            Is([x |-> data]), SameFlags>>) :
        addr \in Datum, data \in Datum}

Unit_STX_ZPY ==
    {Test(<<k.LDX.IMM, data, k.LDY.IMM, offset, k.STX.ZPY, addr>>,
          <<Put(addr + offset, Lo(data + 1)), Cycles(2), Is([x |-> data]), Cycles(2),
            Is([y |-> offset]), Cycles(4), Mem(addr + offset, data)>>) :
        addr \in {0, 1, 5, \h10, \h66, \hAA, \hFA}, data \in Datum, offset \in {0, 1, 5}}

Unit_STX_ABS ==
    {Test(<<k.LDX.IMM, data, k.STX.ABS, Lo(addr), Hi(addr)>>,
          <<Put(addr, Lo(data + 1)), Cycles(2), Is([x |-> data]), Cycles(4), Mem(addr, data)>>) :
        addr \in {0, 1, \hFF, \h0100, \h1000, \h1FFF}, data \in Datum}

Unit_STY_ZP ==
    {Test(<<k.LDY.IMM, data, k.STY.ZP, addr>>,
          <<Put(addr, Lo(data + 1)), Cycles(2), Is([y |-> data]), Mark, Cycles(3), Mem(addr, data),
            Is([y |-> data]), SameFlags>>) :
        addr \in Datum, data \in Datum}

Unit_STY_ZPX ==
    {Test(<<k.LDY.IMM, data, k.LDX.IMM, offset, k.STY.ZPX, addr>>,
          <<Put(addr + offset, Lo(data + 1)), Cycles(2), Is([y |-> data]), Cycles(2),
            Is([x |-> offset]), Cycles(4), Mem(addr + offset, data)>>) :
        addr \in {0, 1, 5, \h10, \h66, \hAA, \hFA}, data \in Datum, offset \in {0, 1, 5}}

Unit_STY_ABS ==
    {Test(<<k.LDY.IMM, data, k.STY.ABS, Lo(addr), Hi(addr)>>,
          <<Put(addr, Lo(data + 1)), Cycles(2), Is([y |-> data]), Cycles(4), Mem(addr, data)>>) :
        addr \in {0, 1, \hFF, \h0100, \h1000, \h1FFF}, data \in Datum}

Unit_TAX ==
    {Test(<<k.LDA.IMM, data, k.TAX.IMPL>>,
          <<Cycles(2), Is([a |-> data]), Cycles(2), Is([x |-> data])>>) : data \in Datum}

Unit_TAY ==
    {Test(<<k.LDA.IMM, data, k.TAY.IMPL>>,
          <<Cycles(2), Is([a |-> data]), Cycles(2), Is([y |-> data])>>) : data \in Datum}

Unit_TSX ==
    {Test(<<k.TSX.IMPL>>, <<Is([sp |-> \hFD]), IsNot([x |-> \hFD]), Cycles(2), Is([x |-> \hFD])>>)}

Unit_TXA ==
    {Test(<<k.LDX.IMM, data, k.TXA.IMPL>>,
          <<Cycles(2), Is([x |-> data]), Cycles(2), Is([a |-> data])>>) : data \in Datum}

Unit_TXS ==
    {Test(<<k.LDX.IMM, data, k.TXS.IMPL>>,
          <<Cycles(2), Is([x |-> data]), Cycles(2), Is([sp |-> data])>>) : data \in Datum \ {\hFF}}

Unit_TYA ==
    {Test(<<k.LDY.IMM, data, k.TYA.IMPL>>,
          <<Cycles(2), Is([y |-> data]), Cycles(2), Is([a |-> data])>>) : data \in Datum \ {\hFF}}
=============================================================================
