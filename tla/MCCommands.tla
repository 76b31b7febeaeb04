---------------------------- MODULE MCCommands ----------------------------
EXTENDS Commands

\* A token of up to three characters: what parse_num tells apart is there.
Characters == {"0", "1", "8", "F", "g", "x", "-", "$"}

Short == UNION {[1 .. n -> Characters] : n \in 1 .. 3}

Longer ==
    {<<"$", "1", "2", "3", "4">>, <<"$", "0", "a", "F", "8">>, <<"$", "1", "0", "0", "0", "0">>,
     <<"$", "8", "F", "0", "g">>, <<"6", "5", "5", "3", "5">>, <<"6", "5", "5", "3", "6">>,
     <<"9", "0", "2", "7">>, <<"0", "x", "1", "F">>, <<"-", "0", "x", "1">>, <<"-", "0", "1", "8">>}

Locations ==
    {<<"2">>, <<"$", "0", "8", "0", "2">>, <<"$", "1", "F", "F", "f">>, <<"8", "1", "9", "0">>,
     <<"$", "2", "0", "0", "0">>, <<"$", "2", "0", "0", "2">>, <<"$", "4", "0", "1", "6">>,
     <<"$", "5", "0", "0", "0">>, <<"$", "8", "0", "0", "0">>, <<"x">>}

Data == {<<"0">>, <<"7">>, <<"$", "1", "F", "F">>, <<"g">>}

Registers == {<<"P", "C">>, <<"S", "P">>, <<"A">>, <<"X">>, <<"Y">>, <<"P">>, <<"7">>}

AnyCommand ==
    {<<>>} \union {<<name>> : name \in {"", "help", "list", "clear", "registers", "peek", "exit",
                               "continue", "step", "break", "delete", "read", "write", "set"}}
    \union {<<name, a>> : name \in {"break", "delete", "step", "read", "write"}, a \in Locations}
    \union {<<"write", a, v>> : a \in Locations, v \in Data}
    \union {<<"read", a, n>> : a \in Locations, n \in {<<"0">>, <<"9">>, <<"$">>}}
    \union {<<"set", r, v>> : r \in Registers, v \in Data}
    \union {<<"w", <<"2">>, <<"8">>, <<"9">>>>}

AnyAddress == {<<name, s>> : name \in {"break", "s"}, s \in Short \union Longer}

\* What comes before: something for the last line to change, or to leave alone.
Earlier ==
    {<<>>, <<"step">>, <<"c">>, <<"break", <<"8">>>>,
     <<"break", <<"$", "0", "8", "0", "2">>>>, <<"delete", <<"8">>>>, <<"w", <<"2">>, <<"9">>>>,
     <<"w", <<"$", "2", "0", "0", "6">>, <<"$", "3", "F">>>>}

Session == <<Earlier, Earlier, AnyCommand \union AnyAddress>>

\* The reset vector is 0x8000; the controller has buttons to shift out.
OneBus ==
    {MakeBus({"ppu", "pad"}, ppu, [reg |-> 129, strobe |-> FALSE], Mapper0(2, [i \in {\h7FFD} |-> \h80])) :
        ppu \in PpuPowerOn({0})}
=============================================================================
