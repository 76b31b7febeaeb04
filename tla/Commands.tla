------------------------------ MODULE Commands ------------------------------
(***************************************************************************)
(* The debugger's prompt (Debugger::read_command,                          *)
(* lib/debugger/debugger.cpp): what a line the user types does to the      *)
(* machine of module Machine and to the breakpoints.  A line is the        *)
(* sequence of its tokens; `step` and `continue`, which run the program,   *)
(* are noted as asked, and are the subject of module Debugger.             *)
(***************************************************************************)
EXTENDS Machine, Numbers

CONSTANTS
    Typed,   \* the lines that may be typed first, second, ...
    Buses    \* what the CPU may have been built on

IsSequence(s) == Len(s) \in Nat /\ s = [n \in 1 .. Len(s) |-> s[n]]

ASSUME TypedAssumption ==
    /\ IsSequence(Typed)
    /\ \A n \in 1 .. Len(Typed) : \A line \in Typed[n] :
           IsSequence(line) /\ \A j \in 2 .. Len(line) : IsSequence(line[j])

ASSUME BusesAssumption == \A bus \in Buses : BusTypeOK(bus) /\ ~bus.thrown

VARIABLES
    breakpoints,   \* breakpoints_
    asked,         \* the last command that runs the program, and how far
    ended,         \* the process has ended
    said           \* history: the lines so far

vars == <<cpu, todo, breakpoints, asked, ended, said>>

Unasked == [to |-> "nothing", n |-> 0]

Init ==
    /\ \E bus \in Buses : cpu = PowerOn(bus)
    /\ todo = 0
    /\ breakpoints = {}
    /\ asked = Unasked
    /\ ended = FALSE
    /\ said = <<>>

-----------------------------------------------------------------------------
Named(line, names) == line # <<>> /\ line[1] \in names

\* The number of the nth token after the command's name.
Number(line, n) == ExtractNum(SubSeq(line, n + 1, Len(line)))

Line(line) == ~ended /\ said' = Append(said, line) /\ UNCHANGED todo

(* cmd_step, cmd_continue                                                   *)
Step(line) ==
    /\ Named(line, {"step", "s"})
    /\ Line(line)
    /\ asked' = [to |-> "step", n |-> IF Number(line, 1) < 1 THEN 1 ELSE Number(line, 1)]
    /\ UNCHANGED <<cpu, breakpoints, ended>>

Continue(line) ==
    /\ Named(line, {"continue", "c"})
    /\ Line(line)
    /\ asked' = [to |-> "continue", n |-> 0]
    /\ UNCHANGED <<cpu, breakpoints, ended>>

\* Mutant of SetBreakpoint: an address that is none is not refused.
SetBreakpointAnyway(line) ==
    /\ Named(line, {"break"})
    /\ Line(line)
    /\ breakpoints' = breakpoints \union {Word(Number(line, 1))}
    /\ UNCHANGED <<cpu, asked, ended>>

(* cmd_break, cmd_delete, cmd_clear                                         *)
SetBreakpoint(line) ==
    /\ Named(line, {"break"})
    /\ Line(line)
    /\ breakpoints' = breakpoints \union ({Number(line, 1)} \ {-1})
    /\ UNCHANGED <<cpu, asked, ended>>

Delete(line) ==
    /\ Named(line, {"delete"})
    /\ Line(line)
    /\ breakpoints' = breakpoints \ {Number(line, 1)}
    /\ UNCHANGED <<cpu, asked, ended>>

Clear(line) ==
    /\ Named(line, {"clear"})
    /\ Line(line)
    /\ breakpoints' = {}
    /\ UNCHANGED <<cpu, asked, ended>>

-----------------------------------------------------------------------------
\* An exception of the cartridge is not caught at the prompt.
Accessed(bus) == cpu' = [cpu EXCEPT !.bus = [bus EXCEPT !.thrown = FALSE]] /\ ended' = bus.thrown

(* cmd_read: one byte if no count, or none that is a number, was given      *)
BytesAsked(line) == IF Number(line, 2) > -1 THEN Number(line, 2) ELSE 1

AfterReads(bus, at, bytes) ==
    LET after[n \in 0 .. bytes] ==
            IF n = 0 THEN bus ELSE Read(after[n - 1], Word(at + n - 1)).bus
    IN  after[bytes]

ReadMemory(line) ==
    /\ Named(line, {"read", "r"})
    /\ Line(line)
    /\ IF Number(line, 1) = -1
         THEN UNCHANGED <<cpu, ended>>
         ELSE Accessed(AfterReads(cpu.bus, Number(line, 1), BytesAsked(line)))
    /\ UNCHANGED <<breakpoints, asked>>

\* cmd_write: the data is cut to a byte.
WriteMemory(line) ==
    /\ Named(line, {"write", "w"})
    /\ Line(line)
    /\ IF -1 \in {Number(line, 1), Number(line, 2)}
         THEN UNCHANGED <<cpu, ended>>
         ELSE Accessed(Write(cpu.bus, Number(line, 1), Number(line, 2) % 256).bus)
    /\ UNCHANGED <<breakpoints, asked>>

(* cmd_set: the registers of eight bits take the low byte                   *)
Register == [n \in {<<"P", "C">>, <<"S", "P">>, <<"A">>, <<"X">>, <<"Y">>, <<"P">>} |->
                CASE n = <<"P", "C">> -> "pc" [] n = <<"S", "P">> -> "sp" [] n = <<"A">> -> "a"
                  [] n = <<"X">> -> "x" [] n = <<"Y">> -> "y" [] n = <<"P">> -> "p"]

\* Mutant of WithRegister: a register takes all of the number.
WithWholeNumber(reg, v) == [cpu EXCEPT ![reg] = IF reg = "p" THEN Flags(v % 256) ELSE v]

WithRegister(reg, v) ==
    [cpu EXCEPT ![reg] = CASE reg = "pc" -> v [] reg = "p" -> Flags(v % 256) [] OTHER -> v % 256]

SetRegister(line) ==
    /\ Named(line, {"set"})
    /\ Line(line)
    /\ cpu' = IF Number(line, 2) = -1 \/ line[2] \notin DOMAIN Register
                THEN cpu ELSE WithRegister(Register[line[2]], Number(line, 2))
    /\ UNCHANGED <<breakpoints, asked, ended>>

(* list, registers and help print; so does what is no command; nothing does *)
(* nothing.                                                                 *)
Changing == {"step", "s", "continue", "c", "break", "delete", "clear", "read", "r", "write", "w",
             "set", "exit"}

Show(line) ==
    /\ ~Named(line, Changing)
    /\ Line(line)
    /\ UNCHANGED <<cpu, breakpoints, asked, ended>>

Exit(line) ==
    /\ Named(line, {"exit"})
    /\ Line(line)
    /\ ended' = TRUE
    /\ UNCHANGED <<cpu, breakpoints, asked>>

\* The end of the input: exit(1).
EndOfInput ==
    /\ ~ended
    /\ ended' = TRUE
    /\ UNCHANGED <<cpu, todo, breakpoints, asked, said>>

Ended == ended /\ UNCHANGED vars

Command(line) ==
    \/ Step(line) \/ Continue(line) \/ SetBreakpoint(line) \/ Delete(line) \/ Clear(line)
    \/ ReadMemory(line) \/ WriteMemory(line) \/ SetRegister(line) \/ Show(line) \/ Exit(line)

Next ==
    \/ Len(said) < Len(Typed) /\ \E line \in Typed[Len(said) + 1] : Command(line)
    \/ EndOfInput
    \/ Ended

Spec == Init /\ [][Next]_vars

-----------------------------------------------------------------------------
(* The numeral of a number, of at most four digits, in base 16 or 10.       *)
Place == [hex |-> <<1, 16, 256, 4096>>, dec |-> <<1, 10, 100, 1000>>]

HexNumeral(n, len) == [j \in 1 .. len |-> Capital[((n \div Place.hex[len - j + 1]) % 16) + 1]]
DecNumeral(n, len) == [j \in 1 .. len |-> Capital[((n \div Place.dec[len - j + 1]) % 10) + 1]]

InCapitals(s) == [j \in 1 .. Len(s) |-> IF s[j] \in HexDigit THEN Capital[Nibble[s[j]] + 1] ELSE s[j]]

AllIn(s, chars) == \A j \in 1 .. Len(s) : s[j] \in chars

\* The two formats that parse_num names, but for decimals that begin with 0 or are too great.
HexFormat(s) == Len(s) \in 2 .. 5 /\ s[1] = "$" /\ AllIn(Tail(s), HexDigit)
DecFormat(s) == Len(s) \in 1 .. 4 /\ AllIn(s, Decimal) /\ (s[1] # "0" \/ Len(s) = 1)

Tokens == UNION {{said[n][j] : j \in 2 .. Len(said[n])} : n \in 1 .. Len(said)}

(* A token in one of the formats stands for the number whose numeral it is; *)
(* whatever else is typed, the answer is -1 or fits in 16 bits              *)
(* (util.hpp:25-32).                                                        *)
NumbersAsWritten ==
    \A s \in Tokens :
        /\ Between(-1, ParseNum(s), MaxWord)
        /\ HexFormat(s) => HexNumeral(ParseNum(s), Len(s) - 1) = InCapitals(Tail(s))
        /\ DecFormat(s) => DecNumeral(ParseNum(s), Len(s)) = s

\* A line's address is b.
Addresses(line, name, b) == Named(line, {name}) /\ Len(line) > 1 /\ ParseNum(line[2]) = b

Sets(line, b)   == Addresses(line, "break", b) /\ b # -1
Unsets(line, b) == Addresses(line, "delete", b) \/ Named(line, {"clear"})

\* Some line has set the breakpoint b, and none since then has unset it.
IsSetBy(lines, b) ==
    \E n \in 1 .. Len(lines) :
        Sets(lines[n], b) /\ \A m \in n .. Len(lines) : ~Unsets(lines[m], b)

(* There is a breakpoint exactly at the addresses that were given to break  *)
(* and have not been cleared since: a line whose address is missing or      *)
(* garbled neither adds one nor removes one (debugger.cpp:124-146).         *)
BreakpointsAsTyped ==
    \A b \in breakpoints \union {ParseNum(s) : s \in Tokens} :
        b \in breakpoints <=> IsSetBy(said, b)

\* What the program would read from RAM.
RamAt(a) == Peek(cpu.bus.ram, a % 2048)

\* A complete `write` to RAM.
Writes(line) ==
    /\ Named(line, {"write", "w"})
    /\ Len(line) > 2
    /\ Between(0, ParseNum(line[2]), 8191) /\ ParseNum(line[3]) # -1

(* A complete `write` to RAM puts the byte at all the addresses of one cell, *)
(* and changes no other cell and no register; an incomplete one, and every  *)
(* other command, leaves RAM alone (debugger.cpp:176, memory.cpp:17).       *)
WriteChangesOneByte ==
    [][said' # said =>
        LET line == said'[Len(said')]
            hit  == IF Writes(line) THEN {ParseNum(line[2]) % 2048} ELSE {}
        IN  /\ \A a \in hit : RamAt(a)' = ParseNum(line[3]) % 256
            /\ \A a \in (DOMAIN cpu.bus.ram \union DOMAIN cpu'.bus.ram) \ hit : RamAt(a)' = RamAt(a)
            /\ hit # {} => [cpu' EXCEPT !.bus = cpu.bus] = cpu]_vars
=============================================================================
