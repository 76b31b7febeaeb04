----------------------------- MODULE WideProofs -----------------------------
(***************************************************************************)
(* What chains of instructions compute, for numbers of any length,         *)
(* whatever comes in between.                                              *)
(***************************************************************************)
EXTENDS Wide, AluProofs

-----------------------------------------------------------------------------
(* Numbers of bytes                                                         *)

LEMMA PlaceDef ==
    /\ Place \in [0 .. Size -> Nat]
    /\ Place[0] = 1
    /\ \A n \in 1 .. Size : Place[n] = 256 * Place[n - 1]
<1> DEFINE H == [n \in 1 .. Size |-> [v \in Nat |-> 256 * v]]
<1>1. Size \in Nat /\ 1 \in Nat /\ H \in [1 .. Size -> [Nat -> Nat]]
  BY WideAssumption
<1>2. PICK f \in [0 .. Size -> Nat] : Recursive(f, Size, 1, H)
  <2> HIDE DEF H
  <2>1. \E f \in [0 .. Size -> Nat] : Recursive(f, Size, 1, H)
    BY <1>1, RecursionDefines
  <2> QED BY <2>1
<1>3. \A n \in 1 .. Size : H[n][f[n - 1]] = 256 * f[n - 1]
  BY <1>1
<1>4. f = [n \in 0 .. Size |-> IF n = 0 THEN 1 ELSE 256 * f[n - 1]]
  <2> HIDE DEF H
  <2>1. \A n \in 0 .. Size : f[n] = IF n = 0 THEN 1 ELSE H[n][f[n - 1]]
    BY <1>2 DEF Recursive
  <2>2. \A n \in 0 .. Size : f[n] = IF n = 0 THEN 1 ELSE 256 * f[n - 1]
    <3>1. \A n \in 0 .. Size : n = 0 \/ n \in 1 .. Size
      BY <1>1
    <3> QED BY <1>3, <2>1, <3>1
  <2> QED BY <2>2
<1>5. Place = [n \in 0 .. Size |-> IF n = 0 THEN 1 ELSE 256 * Place[n - 1]]
  BY <1>4, Zenon DEF Place
<1>6. /\ Place[0] = 1
      /\ \A n \in 1 .. Size : Place[n] = 256 * Place[n - 1]
  BY <1>1, <1>5
<1>7. \A n \in 0 .. Size : Place[n] \in Nat
  <2> DEFINE S == {n \in 0 .. Size : Place[n] \in Nat}
  <2>1. 0 \in S /\ \A n \in 1 .. Size : n - 1 \in S => n \in S
    BY <1>1, <1>6
  <2>2. 0 .. Size \subseteq S
    <3> HIDE DEF S
    <3> QED BY <1>1, <2>1, InductionUpTo
  <2> QED BY <2>2
<1> QED BY <1>5, <1>6, <1>7

LEMMA ByteIsNumber == \A v \in Byte : v \in 0 .. 255 /\ v \in Nat
  BY DEF Byte

LEMMA BytesAreNumbers ==
    ASSUME NEW b \in Seq(Byte)
    PROVE  Len(b) \in Nat /\ \A n \in 1 .. Len(b) : b[n] \in 0 .. 255 /\ b[n] \in Nat
<1>1. Len(b) \in Nat /\ \A n \in 1 .. Len(b) : b[n] \in Byte
  OBVIOUS
<1> QED BY <1>1, ByteIsNumber

LEMMA ValueDef ==
    ASSUME NEW b \in Seq(Byte), Len(b) <= Size
    PROVE  /\ Value(b) \in [0 .. Len(b) -> Nat]
           /\ Value(b)[0] = 0
           /\ \A n \in 1 .. Len(b) : Value(b)[n] = Value(b)[n - 1] + b[n] * Place[n - 1]
<1> DEFINE N == Len(b)
           H == [n \in 1 .. N |-> [v \in Nat |-> v + b[n] * Place[n - 1]]]
<1>1. Size \in Nat /\ N \in Nat /\ N <= Size /\ 0 \in Nat
  BY WideAssumption, BytesAreNumbers
<1>2. \A n \in 1 .. N : b[n] \in Nat /\ Place[n - 1] \in Nat /\ b[n] * Place[n - 1] \in Nat
  <2> SUFFICES ASSUME NEW n \in 1 .. N
               PROVE  b[n] \in Nat /\ Place[n - 1] \in Nat /\ b[n] * Place[n - 1] \in Nat
    OBVIOUS
  <2>1. b[n] \in Nat
    BY BytesAreNumbers
  <2>2. n - 1 \in 0 .. Size
    BY <1>1
  <2>3. Place[n - 1] \in Nat
    BY <2>2, PlaceDef
  <2> QED BY <2>1, <2>3
<1> HIDE DEF N
<1>3. H \in [1 .. N -> [Nat -> Nat]]
  <2>1. \A n \in 1 .. N : \A v \in Nat : v + b[n] * Place[n - 1] \in Nat
    BY <1>2
  <2> QED BY <2>1
<1>4. PICK f \in [0 .. N -> Nat] : Recursive(f, N, 0, H)
  <2> HIDE DEF H
  <2>1. N \in Nat
    BY <1>1
  <2>2. \E f \in [0 .. N -> Nat] : Recursive(f, N, 0, H)
    BY <1>1, <1>3, <2>1, RecursionDefines
  <2> QED BY <2>2
<1>5. \A n \in 1 .. N : H[n][f[n - 1]] = f[n - 1] + b[n] * Place[n - 1]
  BY <1>1
<1>6. f = [n \in 0 .. N |-> IF n = 0 THEN 0 ELSE f[n - 1] + b[n] * Place[n - 1]]
  <2> HIDE DEF H
  <2>1. \A n \in 0 .. N : f[n] = IF n = 0 THEN 0 ELSE H[n][f[n - 1]]
    BY <1>4 DEF Recursive
  <2>2. \A n \in 0 .. N : n = 0 \/ n \in 1 .. N
    BY <1>1
  <2>3. \A n \in 0 .. N : f[n] = IF n = 0 THEN 0 ELSE f[n - 1] + b[n] * Place[n - 1]
    BY <1>5, <2>1, <2>2
  <2> QED BY <2>3
<1>7. Value(b) = [n \in 0 .. N |-> IF n = 0 THEN 0 ELSE Value(b)[n - 1] + b[n] * Place[n - 1]]
  BY <1>6, Zenon DEF Value, N
<1>8. /\ Value(b)[0] = 0
      /\ \A n \in 1 .. N : Value(b)[n] = Value(b)[n - 1] + b[n] * Place[n - 1]
  BY <1>1, <1>7
<1>9. \A n \in 0 .. N : Value(b)[n] \in Nat
  <2> DEFINE S == {n \in 0 .. N : Value(b)[n] \in Nat}
  <2>1. 0 \in S
    BY <1>1, <1>8
  <2>2. \A n \in 1 .. N : n - 1 \in S => n \in S
    BY <1>1, <1>2, <1>8
  <2>3. 0 .. N \subseteq S
    <3> HIDE DEF S
    <3> QED BY <1>1, <2>1, <2>2, InductionUpTo
  <2> QED BY <2>3
<1> QED BY <1>7, <1>8, <1>9 DEF N

(* Bytes that are put at the top change nothing below.                      *)
LEMMA ValueOfPrefix ==
    ASSUME NEW b \in Seq(Byte), Len(b) <= Size, NEW c \in Seq(Byte), Len(c) <= Size,
           NEW m \in 0 .. Len(b), m <= Len(c), \A n \in 1 .. m : b[n] = c[n]
    PROVE  Value(b)[m] = Value(c)[m]
<1> DEFINE S == {n \in 0 .. m : Value(b)[n] = Value(c)[n]}
<1>1. 0 \in S
  BY ValueDef
<1>2. \A n \in 1 .. m : n - 1 \in S => n \in S
  <2>1. \A n \in 1 .. m : Value(b)[n] = Value(b)[n - 1] + b[n] * Place[n - 1]
    BY ValueDef
  <2>2. \A n \in 1 .. m : Value(c)[n] = Value(c)[n - 1] + c[n] * Place[n - 1]
    BY ValueDef
  <2> QED BY <2>1, <2>2
<1>3. 0 .. m \subseteq S
  <2>1. m \in Nat
    OBVIOUS
  <2> HIDE DEF S
  <2> QED BY <1>1, <1>2, <2>1, InductionUpTo
<1> QED BY <1>3

LEMMA ValueOfAppend ==
    ASSUME NEW b \in Seq(Byte), Len(b) < Size, NEW v \in Byte
    PROVE  /\ Append(b, v) \in Seq(Byte) /\ Len(Append(b, v)) = Len(b) + 1
           /\ Value(Append(b, v))[Len(b) + 1] = Value(b)[Len(b)] + v * Place[Len(b)]
<1> DEFINE c == Append(b, v)
<1>1. /\ c \in Seq(Byte) /\ Len(c) = Len(b) + 1 /\ Len(c) <= Size
      /\ c[Len(b) + 1] = v /\ \A n \in 1 .. Len(b) : c[n] = b[n]
  BY WideAssumption
<1> HIDE DEF c
<1>2. Value(c)[Len(c)] = Value(c)[Len(c) - 1] + c[Len(c)] * Place[Len(c) - 1]
  BY <1>1, ValueDef
<1>3. Value(c)[Len(b)] = Value(b)[Len(b)]
  <2>1. Len(b) \in 0 .. Len(b) /\ Len(b) <= Len(c) /\ Len(b) <= Size
    BY <1>1, WideAssumption
  <2> QED BY <1>1, <2>1, ValueOfPrefix
<1> QED BY <1>1, <1>2, <1>3 DEF c

(* A byte that is put at the bottom moves the others up by one place.       *)
LEMMA ValueOfPrepend ==
    ASSUME NEW b \in Seq(Byte), Len(b) < Size, NEW v \in Byte
    PROVE  /\ <<v>> \o b \in Seq(Byte) /\ Len(<<v>> \o b) = Len(b) + 1
           /\ Value(<<v>> \o b)[Len(b) + 1] = v + 256 * Value(b)[Len(b)]
<1> DEFINE c == <<v>> \o b
           N == Len(b)
           S == {n \in 0 .. N : Value(c)[n + 1] = v + 256 * Value(b)[n]}
<1>0. Size \in Nat \ {0} /\ N \in Nat /\ N < Size
  BY WideAssumption
<1>1. /\ c \in Seq(Byte) /\ Len(c) = N + 1 /\ Len(c) <= Size
      /\ c[1] = v /\ \A n \in 1 .. N : c[n + 1] = b[n]
  BY <1>0
<1> HIDE DEF c
<1>2. /\ Value(c) \in [0 .. N + 1 -> Nat] /\ Value(c)[0] = 0
      /\ \A n \in 1 .. N + 1 : Value(c)[n] = Value(c)[n - 1] + c[n] * Place[n - 1]
  BY <1>1, ValueDef
<1>3. /\ Value(b) \in [0 .. N -> Nat] /\ Value(b)[0] = 0
      /\ \A n \in 1 .. N : Value(b)[n] = Value(b)[n - 1] + b[n] * Place[n - 1]
  BY <1>0, ValueDef
<1> HIDE DEF N
<1>4. 0 \in S
  <2>1. Value(c)[1] = Value(c)[0] + c[1] * Place[0]
    BY <1>0, <1>2
  <2> QED BY <1>0, <1>1, <1>2, <1>3, <2>1, PlaceDef DEF Byte
<1>5. \A n \in 1 .. N : n - 1 \in S => n \in S
  <2> SUFFICES ASSUME NEW n \in 1 .. N, Value(c)[n] = v + 256 * Value(b)[n - 1]
               PROVE  Value(c)[n + 1] = v + 256 * Value(b)[n]
    OBVIOUS
  <2>1. n \in Nat /\ n + 1 \in 1 .. N + 1 /\ (n + 1) - 1 = n /\ n \in 1 .. Size /\ n - 1 \in 0 .. N
    BY <1>0
  <2>2. Value(c)[n + 1] = Value(c)[n] + b[n] * Place[n]
    BY <1>1, <1>2, <2>1
  <2>3. Place[n] = 256 * Place[n - 1] /\ Place[n - 1] \in Nat
    <3>1. n - 1 \in 0 .. Size
      BY <2>1, <1>0
    <3> QED BY <2>1, <3>1, PlaceDef
  <2>4. Value(b)[n] = Value(b)[n - 1] + b[n] * Place[n - 1]
    BY <1>3
  <2>5. b[n] \in Nat /\ v \in Nat /\ Value(b)[n - 1] \in Nat
    BY <1>3, <2>1, BytesAreNumbers DEF Byte, N
  <2>6. ASSUME NEW w \in Nat, NEW d \in Nat, NEW e \in Nat
        PROVE  v + 256 * e + d * (256 * w) = v + 256 * (e + d * w)
    BY <2>5
  <2>7. Value(c)[n + 1] = v + 256 * Value(b)[n - 1] + b[n] * (256 * Place[n - 1])
    BY <2>2, <2>3
  <2> QED BY <2>3, <2>4, <2>5, <2>6, <2>7
<1>6. 0 .. N \subseteq S
  <2> HIDE DEF S
  <2> QED BY <1>0, <1>4, <1>5, InductionUpTo
<1>7. N \in S
  BY <1>0, <1>6
<1> QED BY <1>1, <1>7 DEF c, N

(* The bytes below place n are worth less than a one there.                 *)
LEMMA ValueBelowPlace ==
    ASSUME NEW b \in Seq(Byte), Len(b) <= Size, NEW m \in 0 .. Len(b)
    PROVE  Value(b)[m] < Place[m]
<1> DEFINE S == {n \in 0 .. Len(b) : Value(b)[n] < Place[n]}
<1>1. Size \in Nat /\ Len(b) \in Nat /\ Len(b) <= Size
  BY WideAssumption
<1>2. 0 \in S
  BY <1>1, ValueDef, PlaceDef
<1>3. \A n \in 1 .. Len(b) : n - 1 \in S => n \in S
  <2> SUFFICES ASSUME NEW n \in 1 .. Len(b), Value(b)[n - 1] < Place[n - 1]
               PROVE  Value(b)[n] < Place[n]
    OBVIOUS
  <2>1. n \in 1 .. Size /\ n - 1 \in 0 .. Size /\ n - 1 \in 0 .. Len(b)
    BY <1>1
  <2>2. Place[n] = 256 * Place[n - 1] /\ Place[n - 1] \in Nat
    BY <2>1, PlaceDef
  <2>3. Value(b)[n] = Value(b)[n - 1] + b[n] * Place[n - 1] /\ Value(b)[n - 1] \in Nat
    BY <2>1, ValueDef
  <2>4. b[n] \in 0 .. 255
    BY BytesAreNumbers
  <2>5. ASSUME NEW w \in Nat, NEW d \in 0 .. 255, NEW e \in Nat, e < w
        PROVE  e + d * w < 256 * w
    <3>1. d * w <= 255 * w
      OBVIOUS
    <3> QED BY <2>5, <3>1
  <2> QED BY <2>2, <2>3, <2>4, <2>5
<1>4. 0 .. Len(b) \subseteq S
  <2> HIDE DEF S
  <2> QED BY <1>1, <1>2, <1>3, InductionUpTo
<1> QED BY <1>4

-----------------------------------------------------------------------------
(* Calculations                                                             *)

\* P_ as the calculation will find it again: an NMI that runs returns it.
Kept == IF saved = <<>> THEN p ELSE Flags(saved[1])

(* What is true after each byte of a calculation: the bytes so far stand in *)
(* the relation to the operands' that the whole numbers are to stand in.    *)
AddInv ==
    Value(r)[Len(r)] + Place[Len(r)] * Carry(Kept) = Value(x)[Len(r)] + Value(y)[Len(r)]

SubtractInv ==
    Value(r)[Len(r)] - Place[Len(r)] * (1 - Carry(Kept)) = Value(x)[Len(r)] - Value(y)[Len(r)]

DoubleInv ==
    r # <<>> => Value(r)[Len(r)] + Place[Len(r)] * Carry(Kept) = 2 * Value(x)[Len(r)]

HalveInv ==
    r # <<>> => Place[Last] * (2 * Value(r)[Len(r)] + Carry(Kept)) + Value(x)[Last] = Num(x)

CompareInv ==
    r # <<>> =>
        IF "Z" \in Kept
          THEN /\ Num(x) - Value(x)[Last] = Num(y) - Value(y)[Last]
               /\ "C" \in Kept /\ "N" \notin Kept
          ELSE /\ Num(x) # Num(y)
               /\ "C" \in Kept <=> Num(x) > Num(y)
               /\ "N" \in Kept <=> Num(x) < Num(y)

WideInv ==
    /\ WideTypeOK
    /\ job = "add"      => AddInv
    /\ job = "subtract" => SubtractInv
    /\ job = "double"   => DoubleInv
    /\ job = "halve"    => HalveInv
    /\ job = "compare"  => CompareInv

Operands == <<job, x, y, r>>

(* The flags that an NMI saved come back, so it changes nothing that the    *)
(* invariant is about.                                                      *)
LEMMA NmiKeepsFlags ==
    ASSUME WideTypeOK, Interrupt \/ ReturnFromInterrupt
    PROVE  Kept' = Kept /\ UNCHANGED Operands /\ WideTypeOK'
<1>1. CASE Interrupt
  <2>1. StatusByte(p) \in Byte /\ Flags(StatusByte(p)) = p
    BY StatusSurvivesStack DEF WideTypeOK
  <2>2. saved = <<>> /\ saved' = <<StatusByte(p)>> /\ UNCHANGED Operands
    BY <1>1 DEF Interrupt, Operands
  <2>3. p' \in SUBSET Flag
    <3>1. PICK c \in SUBSET {"C", "Z"} : p' = (p \ {"C", "Z"}) \union c
      BY <1>1 DEF Interrupt
    <3> QED BY <3>1 DEF WideTypeOK, Flag
  <2>4. saved' \in Seq(Byte) /\ Len(saved') <= 1 /\ saved'[1] = StatusByte(p) /\ saved' # <<>>
    BY <2>1, <2>2
  <2>5. Kept' = Kept
    BY <2>1, <2>2, <2>4 DEF Kept
  <2> QED BY <2>2, <2>3, <2>4, <2>5 DEF WideTypeOK, Operands
<1>2. CASE ReturnFromInterrupt
  <2>1. saved # <<>> /\ saved' = <<>> /\ p' = Flags(saved[1]) /\ UNCHANGED Operands
    BY <1>2 DEF ReturnFromInterrupt, Operands
  <2>2. p' \in SUBSET Flag
    BY <2>1 DEF Flags
  <2> QED BY <2>1, <2>2 DEF WideTypeOK, Operands, Kept
<1> QED BY <1>1, <1>2

(* What a step of a calculation does: which byte comes in.                  *)
LEMMA Bytes ==
    ASSUME WideTypeOK, Running
    PROVE  /\ Size \in Nat /\ Len(r) \in Nat /\ Next1 \in 1 .. Size /\ Last \in 1 .. Size
           /\ x \in Seq(Byte) /\ y \in Seq(Byte) /\ Len(x) = Size /\ Len(y) = Size
           /\ \A n \in 1 .. Size : x[n] \in Byte /\ y[n] \in Byte
           /\ Kept = p
<1>1. Size \in Nat /\ Len(r) \in Nat /\ Len(r) < Size
  BY WideAssumption DEF WideTypeOK, Running
<1>2. /\ x \in Seq(Byte) /\ y \in Seq(Byte) /\ Len(x) = Size /\ Len(y) = Size
      /\ \A n \in 1 .. Size : x[n] \in Byte /\ y[n] \in Byte
  BY <1>1 DEF WideTypeOK
<1>3. Next1 \in 1 .. Size /\ Last \in 1 .. Size
  BY <1>1 DEF Next1, Last
<1> QED BY <1>1, <1>2, <1>3 DEF Running, Kept

LEMMA GoingUp ==
    ASSUME WideTypeOK, Running, NEW v \in Byte, r' = Append(r, v)
    PROVE  /\ r' \in Seq(Byte) /\ Len(r') = Len(r) + 1 /\ Len(r') <= Size
           /\ Value(r')[Len(r')] = Value(r)[Len(r)] + v * Place[Len(r)]
           /\ Value(x)[Len(r')] = Value(x)[Len(r)] + x[Next1] * Place[Len(r)]
           /\ Value(y)[Len(r')] = Value(y)[Len(r)] + y[Next1] * Place[Len(r)]
           /\ Place[Len(r')] = 256 * Place[Len(r)] /\ Place[Len(r)] \in Nat
           /\ Value(r)[Len(r)] \in Nat /\ Value(x)[Len(r)] \in Nat /\ Value(y)[Len(r)] \in Nat
           /\ v \in Nat /\ x[Next1] \in Nat /\ y[Next1] \in Nat
           /\ Value(r')[Len(r')] \in Nat /\ Value(x)[Len(r')] \in Nat /\ Value(y)[Len(r')] \in Nat
           /\ Place[Len(r')] \in Nat
<1> DEFINE n == Len(r)
<1>1. /\ n \in Nat /\ n + 1 \in 1 .. Size /\ x \in Seq(Byte) /\ y \in Seq(Byte) /\ Size \in Nat
      /\ Len(x) = Size /\ Len(y) = Size /\ x[n + 1] \in Byte /\ y[n + 1] \in Byte
      /\ r \in Seq(Byte) /\ n < Size /\ n \in 0 .. Size /\ (n + 1) - 1 = n /\ Size <= Size
  BY Bytes DEF Next1, WideTypeOK, Running
<1>2. /\ r' \in Seq(Byte) /\ Len(r') = n + 1
      /\ Value(r')[n + 1] = Value(r)[n] + v * Place[n]
  BY <1>1, ValueOfAppend
<1> HIDE DEF n
<1>3. n + 1 \in 0 .. n + 1 /\ n \in 0 .. n /\ n + 1 \in 0 .. Size /\ n <= Size /\ n + 1 <= Size
  BY <1>1
<1>4. \A b \in Seq(Byte) : Len(b) = Size =>
          /\ Value(b)[n + 1] = Value(b)[n] + b[n + 1] * Place[n]
          /\ Value(b)[n] \in Nat /\ Value(b)[n + 1] \in Nat
  BY <1>1, <1>3, ValueDef
<1>5. Value(r)[n] \in Nat /\ Value(r')[n + 1] \in Nat
  BY <1>1, <1>2, <1>3, ValueDef DEF n
<1>6. Place[n + 1] = 256 * Place[n] /\ Place[n] \in Nat /\ Place[n + 1] \in Nat
  BY <1>1, <1>3, PlaceDef
<1>7. v \in Nat /\ x[n + 1] \in Nat /\ y[n + 1] \in Nat
  BY <1>1, ByteIsNumber
<1>8. Len(r') <= Size
  BY <1>1, <1>2
<1> QED BY <1>1, <1>2, <1>4, <1>5, <1>6, <1>7, <1>8, Zenon DEF n, Next1

(* One place further: what the byte carries is worth a one there.           *)
LEMMA CarryIntoPlace ==
    ASSUME NEW w \in Nat, NEW a \in Nat, NEW b \in Nat, NEW v \in Nat, NEW c \in {0, 1},
           NEW d \in {0, 1}, NEW e \in Nat, NEW f \in Nat, NEW g \in Nat,
           v + 256 * d = a + b + c, e + w * c = f + g
    PROVE  (e + v * w) + (256 * w) * d = (f + a * w) + (g + b * w)
<1>1. v = a + b + c - 256 * d
  OBVIOUS
<1>2. v * w + (256 * w) * d = a * w + b * w + w * c
  BY <1>1
<1>3. v * w \in Int /\ (256 * w) * d \in Int /\ a * w \in Int /\ b * w \in Int /\ w * c \in Int
  OBVIOUS
<1> QED BY <1>2, <1>3

LEMMA CarryIsDigit == \A ps : Carry(ps) \in {0, 1}
  BY DEF Carry, One

LEMMA AddStep ==
    ASSUME WideTypeOK, AddInv, AddByte
    PROVE  WideTypeOK' /\ AddInv'
<1> DEFINE s == ADC(x[Next1], y[Next1], p)
<1>1. /\ Running /\ r' = Append(r, s.v) /\ p' = s.p /\ UNCHANGED <<job, x, y, saved>>
  BY DEF AddByte
<1>2. x[Next1] \in Byte /\ y[Next1] \in Byte /\ p \in SUBSET Flag /\ Kept = p /\ Kept' = s.p
  BY <1>1, Bytes DEF WideTypeOK, Kept, Running
<1>3. s.v \in Byte /\ s.v + 256 * Carry(s.p) = x[Next1] + y[Next1] + Carry(p)
  BY <1>2, AdditionKeepsCarry
<1>4. s.p \in SUBSET Flag
  BY <1>2, FlagsTyped
<1> HIDE DEF s
<1>5. /\ r' \in Seq(Byte) /\ Len(r') = Len(r) + 1 /\ Len(r') <= Size
      /\ Value(r')[Len(r')] = Value(r)[Len(r)] + s.v * Place[Len(r)]
      /\ Value(x)[Len(r')] = Value(x)[Len(r)] + x[Next1] * Place[Len(r)]
      /\ Value(y)[Len(r')] = Value(y)[Len(r)] + y[Next1] * Place[Len(r)]
      /\ Place[Len(r')] = 256 * Place[Len(r)] /\ Place[Len(r)] \in Nat
      /\ Value(r)[Len(r)] \in Nat /\ Value(x)[Len(r)] \in Nat /\ Value(y)[Len(r)] \in Nat
      /\ s.v \in Nat /\ x[Next1] \in Nat /\ y[Next1] \in Nat
      /\ Value(r')[Len(r')] \in Nat /\ Value(x)[Len(r')] \in Nat /\ Value(y)[Len(r')] \in Nat
      /\ Place[Len(r')] \in Nat
  BY <1>1, <1>3, GoingUp
<1>6. WideTypeOK'
  BY <1>1, <1>4, <1>5 DEF WideTypeOK
<1>7. Value(r)[Len(r)] + Place[Len(r)] * Carry(p) = Value(x)[Len(r)] + Value(y)[Len(r)]
  BY <1>2 DEF AddInv
<1>8. (Value(r)[Len(r)] + s.v * Place[Len(r)]) + (256 * Place[Len(r)]) * Carry(s.p)
          = (Value(x)[Len(r)] + x[Next1] * Place[Len(r)])
            + (Value(y)[Len(r)] + y[Next1] * Place[Len(r)])
  <2>1. Carry(p) \in {0, 1} /\ Carry(s.p) \in {0, 1}
    BY CarryIsDigit
  <2> DEFINE w == Place[Len(r)]  a == x[Next1]  b == y[Next1]  v == s.v  c == Carry(p)  d == Carry(s.p)
             e == Value(r)[Len(r)]  f == Value(x)[Len(r)]  g == Value(y)[Len(r)]
  <2>2. w \in Nat /\ a \in Nat /\ b \in Nat /\ v \in Nat /\ c \in {0, 1} /\ d \in {0, 1}
        /\ e \in Nat /\ f \in Nat /\ g \in Nat /\ v + 256 * d = a + b + c /\ e + w * c = f + g
    BY <1>3, <1>5, <1>7, <2>1
  <2> HIDE DEF w, a, b, v, c, d, e, f, g
  <2>3. (e + v * w) + (256 * w) * d = (f + a * w) + (g + b * w)
    BY <2>2, CarryIntoPlace
  <2> QED BY <2>3 DEF w, a, b, v, c, d, e, f, g
<1> QED BY <1>1, <1>2, <1>5, <1>6, <1>8 DEF AddInv

LEMMA SubtractStep ==
    ASSUME WideTypeOK, SubtractInv, SubtractByte
    PROVE  WideTypeOK' /\ SubtractInv'
<1> DEFINE s == SBC(x[Next1], y[Next1], p)
           inverted == With(s.p, "C", "C" \notin s.p)
<1>1. /\ Running /\ r' = Append(r, s.v) /\ p' = inverted /\ UNCHANGED <<job, x, y, saved>>
  BY DEF SubtractByte
<1>2. x[Next1] \in Byte /\ y[Next1] \in Byte /\ p \in SUBSET Flag /\ Kept = p /\ Kept' = inverted
  BY <1>1, Bytes DEF WideTypeOK, Kept, Running
<1>3. s.v \in Byte /\ s.v - 256 * Carry(s.p) = x[Next1] - y[Next1] - (1 - Carry(p))
  BY <1>2, SubtractionLeavesBorrow
<1>4. inverted \in SUBSET Flag /\ 1 - Carry(inverted) = Carry(s.p)
  <2>1. s.p \in SUBSET Flag
    BY <1>2, FlagsTyped
  <2> HIDE DEF s
  <2> QED BY <2>1, FlagsTyped DEF Carry, One, With
<1> HIDE DEF s, inverted
<1>5. /\ r' \in Seq(Byte) /\ Len(r') = Len(r) + 1 /\ Len(r') <= Size
      /\ Value(r')[Len(r')] = Value(r)[Len(r)] + s.v * Place[Len(r)]
      /\ Value(x)[Len(r')] = Value(x)[Len(r)] + x[Next1] * Place[Len(r)]
      /\ Value(y)[Len(r')] = Value(y)[Len(r)] + y[Next1] * Place[Len(r)]
      /\ Place[Len(r')] = 256 * Place[Len(r)] /\ Place[Len(r)] \in Nat
      /\ Value(r)[Len(r)] \in Nat /\ Value(x)[Len(r)] \in Nat /\ Value(y)[Len(r)] \in Nat
      /\ s.v \in Nat /\ x[Next1] \in Nat /\ y[Next1] \in Nat
      /\ Value(r')[Len(r')] \in Nat /\ Value(x)[Len(r')] \in Nat /\ Value(y)[Len(r')] \in Nat
      /\ Place[Len(r')] \in Nat
  BY <1>1, <1>3, GoingUp
<1>6. WideTypeOK'
  BY <1>1, <1>4, <1>5 DEF WideTypeOK
<1>7. Value(r)[Len(r)] - Place[Len(r)] * (1 - Carry(p)) = Value(x)[Len(r)] - Value(y)[Len(r)]
  BY <1>2 DEF SubtractInv
<1>8. (Value(x)[Len(r)] + x[Next1] * Place[Len(r)]) + (256 * Place[Len(r)]) * Carry(s.p)
          = (Value(r)[Len(r)] + s.v * Place[Len(r)])
            + (Value(y)[Len(r)] + y[Next1] * Place[Len(r)])
  <2>1. Carry(p) \in {0, 1} /\ Carry(s.p) \in {0, 1}
    BY CarryIsDigit
  <2> DEFINE w == Place[Len(r)]  v == x[Next1]  b == y[Next1]  a == s.v  c == 1 - Carry(p)
             d == Carry(s.p)  f == Value(r)[Len(r)]  e == Value(x)[Len(r)]  g == Value(y)[Len(r)]
  <2>2. w \in Nat /\ a \in Nat /\ b \in Nat /\ v \in Nat /\ c \in {0, 1} /\ d \in {0, 1}
        /\ e \in Nat /\ f \in Nat /\ g \in Nat
    BY <1>5, <2>1
  <2>3. a - 256 * d = v - b - c /\ f - w * c = e - g
    BY <1>3, <1>7
  <2> HIDE DEF w, a, b, v, c, d, e, f, g
  <2>4. w * c \in Int
    BY <2>2
  <2>5. v + 256 * d = a + b + c /\ e + w * c = f + g
    BY <2>2, <2>3, <2>4
  <2>6. (e + v * w) + (256 * w) * d = (f + a * w) + (g + b * w)
    BY <2>2, <2>5, CarryIntoPlace
  <2> QED BY <2>6 DEF w, a, b, v, d, e, f, g
<1>9. /\ Value(x)[Len(r')] + Place[Len(r')] * Carry(s.p) = Value(r')[Len(r')] + Value(y)[Len(r')]
      /\ Place[Len(r')] \in Int /\ Value(x)[Len(r')] \in Int /\ Value(y)[Len(r')] \in Int
      /\ Value(r')[Len(r')] \in Int /\ Place[Len(r')] * Carry(s.p) \in Int
  <2>1. Carry(s.p) \in {0, 1}
    BY CarryIsDigit
  <2>2. Place[Len(r')] * Carry(s.p) \in Int
    BY <1>5, <2>1
  <2> QED BY <1>5, <1>8, <2>2
<1>10. Value(r')[Len(r')] - Place[Len(r')] * (1 - Carry(Kept')) = Value(x)[Len(r')] - Value(y)[Len(r')]
  <2>1. 1 - Carry(Kept') = Carry(s.p)
    BY <1>2, <1>4
  <2> HIDE DEF Kept
  <2> DEFINE t == Place[Len(r')] * Carry(s.p)
  <2>2. Value(r')[Len(r')] - t = Value(x)[Len(r')] - Value(y)[Len(r')]
    <3> HIDE DEF t
    <3>1. Value(x)[Len(r')] + t = Value(r')[Len(r')] + Value(y)[Len(r')] /\ t \in Int
      BY <1>9 DEF t
    <3> QED BY <1>9, <3>1
  <2> QED BY <2>1, <2>2
<1> QED BY <1>1, <1>6, <1>10 DEF SubtractInv

LEMMA DoubleStep ==
    ASSUME WideTypeOK, DoubleInv, DoubleByte
    PROVE  WideTypeOK' /\ DoubleInv'
<1> DEFINE s == IF r = <<>> THEN ASL(x[1], p) ELSE ROL(x[Next1], p)
           c == IF r = <<>> THEN 0 ELSE Carry(p)
<1>1. /\ Running /\ r' = Append(r, s.v) /\ p' = s.p /\ UNCHANGED <<job, x, y, saved>>
  BY DEF DoubleByte
<1>2. x[Next1] \in Byte /\ p \in SUBSET Flag /\ Kept = p /\ Kept' = s.p
  BY <1>1, Bytes DEF WideTypeOK, Kept, Running
<1>3. /\ s.v \in Byte /\ s.p \in SUBSET Flag
      /\ s.v + 256 * Carry(s.p) = 2 * x[Next1] + c
  <2>1. CASE r = <<>>
    <3>1. Next1 = 1
      BY <2>1 DEF Next1
    <3>2. s = ASL(x[Next1], p) /\ c = 0
      BY <2>1, <3>1
    <3> HIDE DEF s, c
    <3>3. s.v + 256 * Carry(s.p) = 2 * x[Next1]
      BY <1>2, <3>2, ShiftsAreExact
    <3> QED BY <1>2, <3>2, <3>3, ShiftsAreExact, ByteIsNumber
  <2>2. CASE r # <<>>
    BY <1>2, <2>2, ShiftsAreExact
  <2> QED BY <2>1, <2>2
<1> HIDE DEF s
<1>5. /\ r' \in Seq(Byte) /\ Len(r') = Len(r) + 1 /\ Len(r') <= Size
      /\ Value(r')[Len(r')] = Value(r)[Len(r)] + s.v * Place[Len(r)]
      /\ Value(x)[Len(r')] = Value(x)[Len(r)] + x[Next1] * Place[Len(r)]
      /\ Value(y)[Len(r')] = Value(y)[Len(r)] + y[Next1] * Place[Len(r)]
      /\ Place[Len(r')] = 256 * Place[Len(r)] /\ Place[Len(r)] \in Nat
      /\ Value(r)[Len(r)] \in Nat /\ Value(x)[Len(r)] \in Nat /\ Value(y)[Len(r)] \in Nat
      /\ s.v \in Nat /\ x[Next1] \in Nat /\ y[Next1] \in Nat
      /\ Value(r')[Len(r')] \in Nat /\ Value(x)[Len(r')] \in Nat /\ Value(y)[Len(r')] \in Nat
      /\ Place[Len(r')] \in Nat
  BY <1>1, <1>3, GoingUp
<1>6. WideTypeOK'
  BY <1>1, <1>3, <1>5 DEF WideTypeOK
<1>7. Value(r)[Len(r)] + Place[Len(r)] * c = Value(x)[Len(r)] + Value(x)[Len(r)]
  <2>1. CASE r = <<>>
    <3>1. Len(r) = 0 /\ x \in Seq(Byte) /\ r \in Seq(Byte) /\ Len(x) = Size /\ 0 <= Size
      BY <2>1, <1>1, Bytes DEF WideTypeOK
    <3>2. Value(r)[0] = 0 /\ Value(x)[0] = 0
      BY <3>1, ValueDef
    <3>3. c = 0
      BY <2>1
    <3> HIDE DEF c
    <3> QED BY <3>1, <3>2, <3>3, <1>5
  <2>2. CASE r # <<>>
    BY <1>2, <1>5, <2>2 DEF DoubleInv
  <2> QED BY <2>1, <2>2
<1>8. c \in {0, 1} /\ Carry(s.p) \in {0, 1}
  BY CarryIsDigit
<1> HIDE DEF c
<1>9. (Value(r)[Len(r)] + s.v * Place[Len(r)]) + (256 * Place[Len(r)]) * Carry(s.p)
          = (Value(x)[Len(r)] + x[Next1] * Place[Len(r)])
            + (Value(x)[Len(r)] + x[Next1] * Place[Len(r)])
  <2> DEFINE w == Place[Len(r)]  a == x[Next1]  v == s.v  d == Carry(s.p)
             e == Value(r)[Len(r)]  f == Value(x)[Len(r)]
  <2>1. w \in Nat /\ a \in Nat /\ v \in Nat /\ c \in {0, 1} /\ d \in {0, 1}
        /\ e \in Nat /\ f \in Nat /\ v + 256 * d = a + a + c /\ e + w * c = f + f
    BY <1>3, <1>5, <1>7, <1>8
  <2> HIDE DEF w, a, v, d, e, f
  <2>2. (e + v * w) + (256 * w) * d = (f + a * w) + (f + a * w)
    BY <2>1, CarryIntoPlace
  <2> QED BY <2>2 DEF w, a, v, d, e, f
<1>10. /\ Value(r')[Len(r')] + Place[Len(r')] * Carry(s.p) = Value(x)[Len(r')] + Value(x)[Len(r')]
       /\ Value(x)[Len(r')] \in Int
  BY <1>5, <1>9
<1>11. Value(r')[Len(r')] + Place[Len(r')] * Carry(Kept') = 2 * Value(x)[Len(r')]
  BY <1>2, <1>10
<1> QED BY <1>1, <1>6, <1>11 DEF DoubleInv

\* The place of the byte that comes next, going down.
Below == Last - 1

LEMMA GoingDown ==
    ASSUME WideTypeOK, Running
    PROVE  /\ Last \in 1 .. Size /\ Below \in 0 .. Size
           /\ r = <<>> => Last = Size
           /\ Place[Last] = 256 * Place[Below] /\ Place[Below] \in Nat
           /\ \A b \in {x, y} : /\ Value(b)[Last] = Value(b)[Below] + b[Last] * Place[Below]
                                /\ Value(b)[Below] \in Nat /\ Value(b)[Below] < Place[Below]
                                /\ b[Last] \in Byte /\ b[Last] \in Nat
                                /\ Len(b) = Size /\ Num(b) \in Nat
<1>1. /\ Last \in 1 .. Size /\ Below \in 0 .. Size /\ Below = Last - 1
      /\ Size \in Nat /\ Size <= Size /\ Size \in 0 .. Size
  BY Bytes DEF Below
<1>2. r = <<>> => Last = Size
  <2>1. r = <<>> => Len(r) = 0
    OBVIOUS
  <2> QED BY <2>1, Bytes DEF Last
<1>3. Place[Last] = 256 * Place[Below] /\ Place[Below] \in Nat
  BY <1>1, PlaceDef
<1>4. \A b \in {x, y} : b \in Seq(Byte) /\ Len(b) = Size /\ b[Last] \in Byte
  BY Bytes
<1>5. ASSUME NEW b \in {x, y}
      PROVE  /\ Value(b)[Last] = Value(b)[Below] + b[Last] * Place[Below]
             /\ Value(b)[Below] \in Nat /\ Value(b)[Below] < Place[Below]
             /\ b[Last] \in Byte /\ b[Last] \in Nat
             /\ Len(b) = Size /\ Num(b) \in Nat
  <2>1. b \in Seq(Byte) /\ Len(b) = Size /\ Len(b) <= Size
    BY <1>1, <1>4
  <2>2. /\ Value(b) \in [0 .. Size -> Nat]
        /\ Value(b)[Last] = Value(b)[Below] + b[Last] * Place[Below]
    BY <1>1, <2>1, ValueDef
  <2>3. Value(b)[Below] \in Nat /\ Num(b) \in Nat
    BY <1>1, <2>1, <2>2 DEF Num
  <2>4. Value(b)[Below] < Place[Below]
    BY <1>1, <2>1, ValueBelowPlace
  <2> QED BY <1>4, <2>1, <2>2, <2>3, <2>4, ByteIsNumber
<1> QED BY <1>1, <1>2, <1>3, <1>5

LEMMA HalveStep ==
    ASSUME WideTypeOK, HalveInv, HalveByte
    PROVE  WideTypeOK' /\ HalveInv'
<1> DEFINE s == IF r = <<>> THEN LSR(x[Size], p) ELSE ROR(x[Last], p)
           c == IF r = <<>> THEN 0 ELSE Carry(p)
           w == Place[Below]  a == x[Last]  e == Value(r)[Len(r)]  f == Value(x)[Below]
<1>1. /\ Running /\ r' = <<s.v>> \o r /\ p' = s.p /\ UNCHANGED <<job, x, y, saved>>
  BY DEF HalveByte
<1>2. /\ p \in SUBSET Flag /\ Kept = p /\ Kept' = s.p /\ r \in Seq(Byte) /\ Len(r) < Size
      /\ Len(r) \in Nat /\ Size \in Nat
  BY <1>1, Bytes DEF WideTypeOK, Kept, Running
<1>3. /\ r = <<>> => Last = Size
      /\ Place[Last] = 256 * w /\ w \in Nat
      /\ Value(x)[Last] = f + a * w /\ f \in Nat /\ a \in Byte /\ a \in Nat
      /\ Len(x) = Size /\ Num(x) \in Nat
  BY <1>1, GoingDown
<1>4. s.v \in Byte /\ s.p \in SUBSET Flag /\ 2 * s.v + Carry(s.p) = a + 256 * c
  <2>1. CASE r = <<>>
    <3>1. s = LSR(a, p) /\ c = 0
      BY <1>3, <2>1
    <3> HIDE DEF s, c, a
    <3>2. 2 * s.v + Carry(s.p) = a
      BY <1>2, <1>3, <3>1, ShiftsAreExact
    <3> QED BY <1>2, <1>3, <3>1, <3>2, ShiftsAreExact
  <2>2. CASE r # <<>>
    BY <1>2, <1>3, <2>2, ShiftsAreExact
  <2> QED BY <2>1, <2>2
<1> HIDE DEF s
<1>5. /\ r' \in Seq(Byte) /\ Len(r') = Len(r) + 1
      /\ Value(r')[Len(r')] = s.v + 256 * e
  BY <1>1, <1>2, <1>4, ValueOfPrepend
<1>6. WideTypeOK'
  BY <1>1, <1>2, <1>4, <1>5 DEF WideTypeOK
<1>7. e \in Nat /\ (256 * w) * (2 * e + c) + (f + a * w) = Num(x)
  <2>1. Len(r) <= Size /\ Len(r) \in 0 .. Len(r)
    BY <1>2
  <2>2. Value(r) \in [0 .. Len(r) -> Nat] /\ Value(r)[0] = 0
    BY <1>2, <2>1, ValueDef
  <2>3. e \in Nat
    BY <2>1, <2>2
  <2>4. CASE r = <<>>
    <3>1. e = 0 /\ c = 0
      BY <2>2, <2>4
    <3>2. Num(x) = f + a * w
      BY <1>3, <2>4 DEF Num
    <3> HIDE DEF e, c, w, f, a
    <3> QED BY <1>3, <2>3, <3>1, <3>2
  <2>5. CASE r # <<>>
    BY <1>2, <1>3, <2>3, <2>5 DEF HalveInv
  <2> QED BY <2>4, <2>5
<1>8. c \in {0, 1} /\ Carry(s.p) \in {0, 1} /\ s.v \in Nat
  BY <1>4, CarryIsDigit, ByteIsNumber
<1>9. w * (2 * (s.v + 256 * e) + Carry(s.p)) + f = Num(x)
  <2> DEFINE d == Carry(s.p)  v == s.v
  <2>1. w \in Nat /\ a \in Nat /\ e \in Nat /\ f \in Nat /\ c \in Nat /\ d \in Nat /\ v \in Nat
    BY <1>3, <1>7, <1>8
  <2>2. 2 * v + d = a + 256 * c
    BY <1>4
  <2> HIDE DEF w, a, e, f, c, d, v
  <2>3. 2 * (v + 256 * e) + d = a + 256 * c + 512 * e
    BY <2>1, <2>2
  <2>4. w * (a + 256 * c + 512 * e) = (256 * w) * (2 * e + c) + a * w
    BY <2>1
  <2>5. w * (2 * (v + 256 * e) + d) + f = (256 * w) * (2 * e + c) + (f + a * w)
    <3>1. (256 * w) * (2 * e + c) \in Int /\ a * w \in Int
      BY <2>1
    <3> QED BY <2>1, <2>3, <2>4, <3>1
  <2> QED BY <1>7, <2>5 DEF v, d
<1>10. Last' = Below
  BY <1>1, <1>2, <1>5 DEF Last, Below
<1> HIDE DEF c, w, a, e, f
<1>11. Place[Last'] * (2 * Value(r')[Len(r')] + Carry(Kept')) + Value(x)[Last'] = Num(x)
  BY <1>2, <1>5, <1>9, <1>10 DEF w, f
<1> QED BY <1>1, <1>6, <1>11 DEF HalveInv

LEMMA CompareStep ==
    ASSUME WideTypeOK, CompareInv, CompareByte
    PROVE  WideTypeOK' /\ CompareInv'
<1> DEFINE w == Place[Below]  a == x[Last]  b == y[Last]  f == Value(x)[Below]  g == Value(y)[Below]
<1>1. /\ Running /\ r' = Append(r, 0) /\ p' = CMP(a, b, p) /\ UNCHANGED <<job, x, y, saved>>
      /\ r = <<>> \/ "Z" \in p
  BY DEF CompareByte
<1>2. /\ p \in SUBSET Flag /\ Kept = p /\ Kept' = p' /\ r \in Seq(Byte) /\ Len(r) < Size
      /\ Len(r) \in Nat /\ Size \in Nat
  BY <1>1, Bytes DEF WideTypeOK, Kept, Running
<1>3. /\ r = <<>> => Last = Size
      /\ Value(x)[Last] = f + a * w /\ Value(y)[Last] = g + b * w
      /\ w \in Nat /\ f \in Nat /\ g \in Nat /\ a \in Nat /\ b \in Nat /\ f < w /\ g < w
      /\ Len(x) = Size /\ Num(x) \in Nat /\ Len(y) = Size /\ Num(y) \in Nat
  BY <1>1, GoingDown
<1>4. r' \in Seq(Byte) /\ Len(r') = Len(r) + 1 /\ r' # <<>>
  <2>1. 0 \in Byte
    BY DEF Byte
  <2> QED BY <1>1, <1>2, <2>1
<1>5. /\ p' \in SUBSET Flag
      /\ "C" \in p' <=> a >= b
      /\ "Z" \in p' <=> a = b
      /\ "N" \in p' <=> a < b
  <2>1. p' \in SUBSET Flag
    BY <1>1, <1>2, FlagsTyped
  <2> QED BY <1>1, <2>1 DEF CMP, With
<1>6. WideTypeOK'
  BY <1>1, <1>2, <1>4, <1>5 DEF WideTypeOK
<1>7. Num(x) - (f + a * w) = Num(y) - (g + b * w)
  <2>1. CASE r = <<>>
    <3>1. Num(x) = f + a * w /\ Num(y) = g + b * w
      BY <1>3, <2>1 DEF Num
    <3> QED BY <1>3, <3>1
  <2>2. CASE r # <<>>
    BY <1>1, <1>2, <1>3, <2>2 DEF CompareInv
  <2> QED BY <2>1, <2>2
<1>8. Last' = Below
  BY <1>1, <1>2, <1>4 DEF Last, Below
<1> HIDE DEF w, a, b, f, g
<1>9. CASE a = b
  <2>1. Num(x) - f = Num(y) - g
    <3>1. b * w \in Int /\ a * w = b * w
      BY <1>3, <1>9
    <3> QED BY <1>3, <1>7, <3>1
  <2>2. "Z" \in p' /\ "C" \in p' /\ "N" \notin p'
    BY <1>3, <1>5, <1>9
  <2> QED BY <1>1, <1>2, <1>4, <1>6, <1>8, <2>1, <2>2 DEF CompareInv, f, g
<1>10. CASE a > b
  <2>1. a * w >= b * w + w
    <3>1. a * w = b * w + (a - b) * w /\ (a - b) * w >= w
      BY <1>3, <1>10
    <3> QED BY <1>3, <3>1
  <2>2. a * w \in Int /\ b * w \in Int
    BY <1>3
  <2>3. Num(x) > Num(y)
    BY <1>3, <1>7, <2>1, <2>2
  <2>4. "Z" \notin p' /\ "C" \in p' /\ "N" \notin p'
    BY <1>3, <1>5, <1>10
  <2>5. Num(x) # Num(y) /\ ~(Num(x) < Num(y))
    BY <1>3, <2>3
  <2> QED BY <1>1, <1>2, <1>4, <1>6, <2>3, <2>4, <2>5 DEF CompareInv
<1>11. CASE a < b
  <2>1. b * w >= a * w + w
    <3>1. b * w = a * w + (b - a) * w /\ (b - a) * w >= w
      BY <1>3, <1>11
    <3> QED BY <1>3, <3>1
  <2>2. a * w \in Int /\ b * w \in Int
    BY <1>3
  <2>3. Num(x) < Num(y)
    BY <1>3, <1>7, <2>1, <2>2
  <2>4. "Z" \notin p' /\ "C" \notin p' /\ "N" \in p'
    BY <1>3, <1>5, <1>11
  <2>5. Num(x) # Num(y) /\ ~(Num(x) > Num(y))
    BY <1>3, <2>3
  <2> QED BY <1>1, <1>2, <1>4, <1>6, <2>3, <2>4, <2>5 DEF CompareInv
<1> QED BY <1>3, <1>9, <1>10, <1>11

\* The invariants are about the bytes and the flags that the calculation will find.
LEMMA InvIsAboutOperands ==
    ASSUME WideInv, UNCHANGED Operands, WideTypeOK', Kept' = Kept
    PROVE  WideInv'
  BY DEF WideInv, Operands, AddInv, SubtractInv, DoubleInv, HalveInv, CompareInv, Last

LEMMA OtherInstructionKeepsInv ==
    ASSUME WideInv, OtherInstruction
    PROVE  WideInv'
<1>1. PICK v \in {0, 1, 128} : p' = WithZN(p, v)
  BY DEF OtherInstruction
<1>2. /\ Running /\ job # "compare" /\ UNCHANGED <<job, x, y, r, saved>> /\ p \in SUBSET Flag
      /\ WideTypeOK
  BY DEF OtherInstruction, WideInv, WideTypeOK
<1>3. p' \in SUBSET Flag /\ Carry(p') = Carry(p)
  BY <1>1, <1>2, FlagsTyped DEF WithZN, With, Carry, One
<1>4. Kept = p /\ Kept' = p'
  BY <1>2 DEF Kept, Running
<1>5. WideTypeOK' /\ Carry(Kept') = Carry(Kept)
  BY <1>2, <1>3, <1>4 DEF WideTypeOK
<1> QED
  BY <1>2, <1>5 DEF WideInv, AddInv, SubtractInv, DoubleInv, HalveInv, Last

(* The inductive invariant, and that it is one.                             *)
THEOREM WideInvHolds == Spec => []WideInv
<1>1. ASSUME Init PROVE WideInv
  <2>1. /\ Size \in Nat \ {0} /\ Sample \subseteq Byte
        /\ job \in Job /\ x \in [1 .. Size -> Sample] /\ y \in [1 .. Size -> Sample]
        /\ r = <<>> /\ p \in SUBSET Flag /\ saved = <<>> /\ (job = "add" => p = {})
        /\ (job # "add" => p = {"C"})
    BY <1>1, WideAssumption DEF Init, Number, Job, Flag
  <2>2. x \in [1 .. Size -> Byte] /\ y \in [1 .. Size -> Byte]
    BY <2>1
  <2>3. WideTypeOK
    <3>1. r \in Seq(Byte) /\ Len(r) = 0 /\ saved \in Seq(Byte) /\ Len(saved) = 0
      BY <2>1
    <3> QED BY <2>1, <2>2, <3>1 DEF WideTypeOK
  <2>4. /\ x \in Seq(Byte) /\ y \in Seq(Byte) /\ r \in Seq(Byte)
        /\ Len(x) <= Size /\ Len(y) <= Size /\ Len(r) <= Size /\ Len(r) = 0
    BY <2>1, <2>2
  <2>5. Value(x)[0] = 0 /\ Value(y)[0] = 0 /\ Value(r)[0] = 0 /\ Place[0] = 1
    BY <2>4, ValueDef, PlaceDef
  <2>6. (job = "add" => Carry(Kept) = 0) /\ (job # "add" => Carry(Kept) = 1)
    BY <2>1 DEF Kept, Carry, One
  <2>7. job = "add" => AddInv
    BY <2>4, <2>5, <2>6 DEF AddInv
  <2>8. job = "subtract" => SubtractInv
    BY <2>4, <2>5, <2>6 DEF SubtractInv
  <2> QED BY <2>1, <2>3, <2>7, <2>8 DEF WideInv, DoubleInv, HalveInv, CompareInv
<1>2. ASSUME WideInv, [Next]_wideVars PROVE WideInv'
  <2> USE <1>2
  <2>1. CASE AddByte
    <3>1. job = "add" /\ job' = job
      BY <2>1 DEF AddByte
    <3> QED BY <2>1, <3>1, AddStep DEF WideInv
  <2>2. CASE SubtractByte
    <3>1. job = "subtract" /\ job' = job
      BY <2>2 DEF SubtractByte
    <3> QED BY <2>2, <3>1, SubtractStep DEF WideInv
  <2>3. CASE CompareByte
    <3>1. job = "compare" /\ job' = job
      BY <2>3 DEF CompareByte
    <3> QED BY <2>3, <3>1, CompareStep DEF WideInv
  <2>4. CASE DoubleByte
    <3>1. job = "double" /\ job' = job
      BY <2>4 DEF DoubleByte
    <3> QED BY <2>4, <3>1, DoubleStep DEF WideInv
  <2>5. CASE HalveByte
    <3>1. job = "halve" /\ job' = job
      BY <2>5 DEF HalveByte
    <3> QED BY <2>5, <3>1, HalveStep DEF WideInv
  <2>6. CASE OtherInstruction
    BY <2>6, OtherInstructionKeepsInv
  <2>7. CASE Interrupt \/ ReturnFromInterrupt
    BY <2>7, NmiKeepsFlags, InvIsAboutOperands DEF WideInv
  <2>8. CASE UNCHANGED wideVars
    <3>1. Kept' = Kept /\ UNCHANGED Operands /\ WideTypeOK'
      BY <2>8 DEF wideVars, Kept, Operands, WideInv, WideTypeOK
    <3> QED BY <3>1, InvIsAboutOperands
  <2> QED BY <2>1, <2>2, <2>3, <2>4, <2>5, <2>6, <2>7, <2>8 DEF Next
<1> QED BY <1>1, <1>2, PTL DEF Spec

THEOREM WideTyped == Spec => []WideTypeOK
<1>1. WideInv => WideTypeOK
  BY DEF WideInv
<1> QED BY <1>1, WideInvHolds, PTL

LEMMA WhenDone ==
    ASSUME WideInv, Done
    PROVE  /\ Len(r) = Size /\ Kept = p /\ Len(x) = Size /\ Len(y) = Size /\ r # <<>> /\ Last = 0
           /\ Value(x)[0] = 0 /\ Value(y)[0] = 0
<1>1. Size \in Nat \ {0} /\ Len(r) = Size /\ saved = <<>> /\ WideTypeOK
  BY WideAssumption DEF WideInv, Done
<1>2. x \in Seq(Byte) /\ y \in Seq(Byte) /\ Len(x) = Size /\ Len(y) = Size /\ Len(<<>>) = 0
  BY <1>1 DEF WideTypeOK
<1>3. Size <= Size
  BY <1>1
<1>4. Value(x)[0] = 0 /\ Value(y)[0] = 0
  BY <1>2, <1>3, ValueDef
<1> QED BY <1>1, <1>2, <1>4 DEF Kept, Last

(* Numbers of any length are added exactly, with any instructions and any   *)
(* NMIs between the ADCs (alu.cpp:615).                                     *)
THEOREM AdditionAlwaysExact == Spec => []AdditionExact
<1>1. ASSUME WideInv, Done, job = "add"
      PROVE  Num(r) + Top * Carry(p) = Num(x) + Num(y)
  BY <1>1, WhenDone DEF WideInv, AddInv, Num, Top
<1>2. WideInv => AdditionExact
  BY <1>1 DEF AdditionExact
<1> QED BY <1>2, WideInvHolds, PTL

(* ... and subtracted, if the carry is inverted between the SBCs.           *)
THEOREM SubtractionAlwaysExact == Spec => []SubtractionExact
<1>1. ASSUME WideInv, Done, job = "subtract"
      PROVE  Num(r) - Top * (1 - Carry(p)) = Num(x) - Num(y)
  BY <1>1, WhenDone DEF WideInv, SubtractInv, Num, Top
<1>2. WideInv => SubtractionExact
  BY <1>1 DEF SubtractionExact
<1> QED BY <1>2, WideInvHolds, PTL

(* ... and compared, by CMPs from the top that stop at the first difference *)
(* (alu.cpp:674).                                                           *)
THEOREM ComparisonAlwaysOrders == Spec => []ComparisonOrders
<1>1. ASSUME WideInv, saved = <<>>, job = "compare", Done \/ (r # <<>> /\ "Z" \notin p)
      PROVE  /\ "C" \in p <=> Num(x) >= Num(y)
             /\ "Z" \in p <=> Num(x) = Num(y)
             /\ "N" \in p <=> Num(x) < Num(y)
  <2>1. Kept = p /\ CompareInv
    BY <1>1 DEF Kept, WideInv
  <2>2. Num(x) \in Nat /\ Num(y) \in Nat
    <3>1. /\ x \in Seq(Byte) /\ y \in Seq(Byte) /\ Len(x) = Size /\ Len(y) = Size
          /\ Size \in Nat /\ Size <= Size /\ Size \in 0 .. Size
      BY <1>1, WideAssumption DEF WideInv, WideTypeOK
    <3> QED BY <3>1, ValueDef DEF Num
  <2>3. CASE "Z" \in p
    <3>1. Done /\ r # <<>> /\ Last = 0 /\ Value(x)[0] = 0 /\ Value(y)[0] = 0
      BY <1>1, <2>3, WhenDone
    <3>2. Num(x) - 0 = Num(y) - 0 /\ "C" \in p /\ "N" \notin p
      BY <2>1, <2>3, <3>1 DEF CompareInv
    <3> QED BY <2>2, <2>3, <3>2
  <2>4. CASE "Z" \notin p
    <3>1. r # <<>>
      BY <1>1, WhenDone
    <3> QED BY <2>1, <2>2, <2>4, <3>1 DEF CompareInv
  <2> QED BY <2>3, <2>4
<1>2. WideInv => ComparisonOrders
  BY <1>1 DEF ComparisonOrders
<1> QED BY <1>2, WideInvHolds, PTL

(* ... and doubled, by ASL and ROLs, and halved, by LSR and RORs            *)
(* (alu.cpp:626, 711, 735, 746).                                            *)
THEOREM DoublingAlwaysExact == Spec => []DoublingExact
<1>1. ASSUME WideInv, Done, job = "double"
      PROVE  Num(r) + Top * Carry(p) = 2 * Num(x)
  BY <1>1, WhenDone DEF WideInv, DoubleInv, Num, Top
<1>2. WideInv => DoublingExact
  BY <1>1 DEF DoublingExact
<1> QED BY <1>2, WideInvHolds, PTL

(* A number shifted down is halved, and the carry is what is left over.     *)
THEOREM HalvingAlwaysExact == Spec => []HalvingExact
<1>1. ASSUME WideInv, Done, job = "halve"
      PROVE  2 * Num(r) + Carry(p) = Num(x)
  <2>1. /\ Place[0] * (2 * Num(r) + Carry(p)) + 0 = Num(x)
    BY <1>1, WhenDone DEF WideInv, HalveInv, Num
  <2>2. Num(r) \in Nat /\ Carry(p) \in {0, 1}
    <3>1. r \in Seq(Byte) /\ Len(r) <= Size /\ Len(r) \in 0 .. Len(r)
      BY <1>1 DEF WideInv, WideTypeOK
    <3> QED BY <3>1, ValueDef, CarryIsDigit DEF Num
  <2> QED BY <2>1, <2>2, PlaceDef
<1>2. WideInv => HalvingExact
  BY <1>1 DEF HalvingExact
<1> QED BY <1>2, WideInvHolds, PTL
=============================================================================
