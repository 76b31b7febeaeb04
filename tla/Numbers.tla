------------------------------- MODULE Numbers -------------------------------
(***************************************************************************)
(* The numbers a user types at the debugger (lib/util/parsing.cpp): the    *)
(* token is a sequence of characters, the answer -1 or a uint16_t.  The    *)
(* values are taken modulo 65536 at each digit, which comes to the same as *)
(* the conversion at the end: 65536 divides the modulus of the uint32_t,   *)
(* and tokens are too short to exceed strtol's long.                       *)
(***************************************************************************)
EXTENDS Integers, Sequences

Capital == <<"0", "1", "2", "3", "4", "5", "6", "7", "8", "9", "A", "B", "C", "D", "E", "F">>
Small   == [Capital EXCEPT ![11] = "a", ![12] = "b", ![13] = "c", ![14] = "d", ![15] = "e", ![16] = "f"]

HexDigit == {Capital[n] : n \in 1 .. 16} \union {Small[n] : n \in 1 .. 16}
Decimal  == {Capital[n] : n \in 1 .. 10}

\* The value of a character, from its place in the ASCII table.
Nibble == [c \in HexDigit |-> (CHOOSE n \in 1 .. 16 : Capital[n] = c \/ Small[n] = c) - 1]

\* static_cast<uint16_t>
Uint16(n) == n % 65536

Positional(digits, base) ==
    LET value[n \in 0 .. Len(digits)] ==
            IF n = 0 THEN 0 ELSE Uint16(value[n - 1] * base + Nibble[digits[n]])
    IN  value[Len(digits)]

IsDigit(c, base) == c \in HexDigit /\ Nibble[c] < base

\* How many digits of the base s begins with.
Leading(s, base) ==
    CHOOSE n \in 0 .. Len(s) :
        (\A m \in 1 .. n : IsDigit(s[m], base)) /\ (n < Len(s) => ~IsDigit(s[n + 1], base))

Prefix(s, base) == SubSeq(s, 1, Leading(s, base))

(* strtol with base 0, of an unsigned string: 0x means base 16 if a digit   *)
(* follows, a 0 base 8; what comes after the number is ignored.             *)
Unsigned(s) ==
    IF Len(s) > 2 /\ s[1] = "0" /\ s[2] \in {"x", "X"} /\ s[3] \in HexDigit
      THEN Positional(Prefix(SubSeq(s, 3, Len(s)), 16), 16)
    ELSE IF s # <<>> /\ s[1] = "0" THEN Positional(Prefix(s, 8), 8)
    ELSE Positional(Prefix(s, 10), 10)

Strtol(s) == IF s[1] = "-" THEN Uint16(-Unsigned(Tail(s))) ELSE Unsigned(s)

\* Mutant of Hex: the digits counted in tens.
HexInTens(digits) ==
    IF digits # <<>> /\ \A n \in 1 .. Len(digits) : digits[n] \in HexDigit
      THEN Positional(digits, 10) ELSE -1

\* All of what follows the $ must be hexadecimal, and there must be something.
Hex(digits) ==
    IF digits # <<>> /\ \A n \in 1 .. Len(digits) : digits[n] \in HexDigit
      THEN Positional(digits, 16) ELSE -1

\* parse_num
ParseNum(token) ==
    IF token = <<>> THEN -1
    ELSE IF token[1] \in Decimal \union {"-"} THEN Strtol(token)
    ELSE IF token[1] = "$" THEN Hex(Tail(token))
    ELSE -1

\* extract_num, of what the stream still holds: no token reads as an empty one.
ExtractNum(rest) == IF rest = <<>> THEN ParseNum(<<>>) ELSE ParseNum(Head(rest))
=============================================================================
