----------------------------- MODULE AluProofs -----------------------------
(***************************************************************************)
(* What the arithmetic instructions compute, for all bytes and all flags;  *)
(* and the induction that is needed where they are chained.                *)
(***************************************************************************)
EXTENDS Alu, WellFoundedInduction, TLAPS

-----------------------------------------------------------------------------
(* Instructions                                                             *)

(* ADC adds with carry in and out: nothing is lost (alu.cpp:615).           *)
THEOREM AdditionKeepsCarry ==
    ASSUME NEW a \in Byte, NEW val \in Byte, NEW ps \in SUBSET Flag
    PROVE  LET s == ADC(a, val, ps)
           IN  /\ s.v \in Byte
               /\ s.v + 256 * Carry(s.p) = a + val + Carry(ps)
               /\ "Z" \in s.p <=> s.v = 0
               /\ "N" \in s.p <=> s.v >= 128
<1> DEFINE sum == a + val + Carry(ps)
           res == sum % 256
           v   == AddFlows(a, val, res)
           q   == WithZN(With(With(ps, "V", v), "C", sum >= 256), res)
<1>1. sum \in 0 .. 511
  BY DEF Carry, One, Byte
<1>2. res \in 0 .. 255 /\ sum = res + (IF sum >= 256 THEN 256 ELSE 0)
  <2> HIDE DEF sum
  <2> QED BY <1>1
<1>3. v \in BOOLEAN
  BY DEF AddFlows
<1>4. /\ "C" \in q <=> sum >= 256
      /\ "Z" \in q <=> res = 0
      /\ "N" \in q <=> res >= 128
  <2> HIDE DEF res, v, sum
  <2> QED BY <1>2, <1>3 DEF WithZN, With, Negative
<1>5. ADC(a, val, ps) = [v |-> res, p |-> q]
  BY DEF ADC
<1>6. 256 * Carry(q) = IF sum >= 256 THEN 256 ELSE 0
  <2> HIDE DEF sum, q
  <2> QED BY <1>4 DEF Carry, One
<1> HIDE DEF sum, res, q
<1>7. sum = a + val + Carry(ps)
  BY DEF sum
<1> QED BY <1>1, <1>2, <1>4, <1>5, <1>6, <1>7 DEF Byte

(* SBC subtracts, and reports the borrow in the carry flag, where it takes  *)
(* the complement of one (alu.cpp:757).                                     *)
THEOREM SubtractionLeavesBorrow ==
    ASSUME NEW a \in Byte, NEW val \in Byte, NEW ps \in SUBSET Flag
    PROVE  LET s == SBC(a, val, ps)
           IN  /\ s.v \in Byte
               /\ s.v - 256 * Carry(s.p) = a - val - (1 - Carry(ps))
               /\ "Z" \in s.p <=> s.v = 0
               /\ "N" \in s.p <=> s.v >= 128
<1> DEFINE diff == a - (val + 1 - Carry(ps))
           res  == diff % 256
           v    == SubFlows(a, val, res)
           q    == WithZN(With(With(ps, "V", v), "C", diff < 0), res)
<1>1. diff \in -256 .. 255
  BY DEF Carry, One, Byte
<1>2. res \in 0 .. 255 /\ diff = res - (IF diff < 0 THEN 256 ELSE 0)
  <2> HIDE DEF diff
  <2> QED BY <1>1
<1>3. v \in BOOLEAN
  BY DEF SubFlows
<1>4. /\ "C" \in q <=> diff < 0
      /\ "Z" \in q <=> res = 0
      /\ "N" \in q <=> res >= 128
  <2> HIDE DEF res, v, diff
  <2> QED BY <1>2, <1>3 DEF WithZN, With, Negative
<1>5. SBC(a, val, ps) = [v |-> res, p |-> q]
  BY DEF SBC
<1>6. 256 * Carry(q) = IF diff < 0 THEN 256 ELSE 0
  <2> HIDE DEF diff, q
  <2> QED BY <1>4 DEF Carry, One
<1>7. diff = a - val - (1 - Carry(ps))
  BY DEF Carry, One, Byte
<1> HIDE DEF diff, res, q
<1> QED BY <1>1, <1>2, <1>4, <1>5, <1>6, <1>7 DEF Byte

(* ADC and SBC set V exactly when the signed result does not fit            *)
(* (detectFlowAddition and detectFlowSubtraction, which never see the carry *)
(* that came in).                                                           *)
THEOREM OverflowIsSignedOverflow ==
    ASSUME NEW a \in Byte, NEW val \in Byte, NEW ps \in SUBSET Flag
    PROVE  /\ "V" \in ADC(a, val, ps).p
                <=> Signed(a) + Signed(val) + Carry(ps) \notin -128 .. 127
           /\ "V" \in SBC(a, val, ps).p
                <=> Signed(a) - Signed(val) - (1 - Carry(ps)) \notin -128 .. 127
<1> DEFINE c == Carry(ps)
           sum == a + val + c
           diff == a - (val + 1 - c)
           up == sum % 256
           down == diff % 256
<1>1. c \in {0, 1}
  BY DEF Carry, One
<1>2. /\ "V" \in ADC(a, val, ps).p <=> AddFlows(a, val, up)
      /\ "V" \in SBC(a, val, ps).p <=> SubFlows(a, val, down)
  BY DEF ADC, SBC, WithZN, With, AddFlows, SubFlows
<1>3. AddFlows(a, val, up) <=> Signed(a) + Signed(val) + c \notin -128 .. 127
  <2> HIDE DEF c
  <2>1. sum \in Int /\ up = IF sum >= 256 THEN sum - 256 ELSE sum
    BY <1>1 DEF Byte
  <2> HIDE DEF up
  <2> QED BY <1>1, <2>1 DEF AddFlows, Signed, Negative, Byte
<1>4. SubFlows(a, val, down) <=> Signed(a) - Signed(val) - (1 - c) \notin -128 .. 127
  <2> HIDE DEF c
  <2>1. diff \in Int /\ down = IF diff < 0 THEN diff + 256 ELSE diff
    BY <1>1 DEF Byte
  <2> HIDE DEF down
  <2>2. diff < 0 <=> a < val + 1 - c
    BY <1>1 DEF Byte
  <2>3. CASE a >= 128 /\ val < 128
    BY <1>1, <2>1, <2>2, <2>3 DEF SubFlows, Signed, Negative, Byte
  <2>4. CASE a < 128 /\ val >= 128
    BY <1>1, <2>1, <2>2, <2>4 DEF SubFlows, Signed, Negative, Byte
  <2>5. CASE (a >= 128) = (val >= 128)
    BY <1>1, <2>5 DEF SubFlows, Signed, Negative, Byte
  <2> QED BY <2>3, <2>4, <2>5 DEF Byte
<1> QED BY <1>2, <1>3, <1>4

(* What PHP, BRK or an NMI pushes is what RTI pulls: all eight flags.       *)
THEOREM StatusSurvivesStack ==
    ASSUME NEW ps \in SUBSET Flag
    PROVE  StatusByte(ps) \in Byte /\ Flags(StatusByte(ps)) = ps
<1> DEFINE c == One("C" \in ps)  z == One("Z" \in ps)  i == One("I" \in ps)  d == One("D" \in ps)
           b == One("B" \in ps)  u == One("U" \in ps)  v == One("V" \in ps)  n == One("N" \in ps)
           s == StatusByte(ps)
<1>1. /\ c \in {0, 1} /\ z \in {0, 1} /\ i \in {0, 1} /\ d \in {0, 1}
      /\ b \in {0, 1} /\ u \in {0, 1} /\ v \in {0, 1} /\ n \in {0, 1}
  BY DEF One
<1>2. s = c + 2 * z + 4 * i + 8 * d + 16 * b + 32 * u + 64 * v + 128 * n
  BY DEF StatusByte
<1>3. /\ c = 1 <=> "C" \in ps
      /\ z = 1 <=> "Z" \in ps
      /\ i = 1 <=> "I" \in ps
      /\ d = 1 <=> "D" \in ps
      /\ b = 1 <=> "B" \in ps
      /\ u = 1 <=> "U" \in ps
      /\ v = 1 <=> "V" \in ps
      /\ n = 1 <=> "N" \in ps
  BY DEF One
<1> HIDE DEF c, z, i, d, b, u, v, n, s
<1>4. s \in 0 .. 255
  BY <1>1, <1>2
<1>5. /\ (s \div 1) % 2 = c
      /\ (s \div 2) % 2 = z
      /\ (s \div 4) % 2 = i
      /\ (s \div 8) % 2 = d
      /\ (s \div 16) % 2 = b
      /\ (s \div 32) % 2 = u
      /\ (s \div 64) % 2 = v
      /\ (s \div 128) % 2 = n
  <2>1. (s \div 1) % 2 = c
    <3>1. s \div 1 = s
      BY <1>4
    <3> QED BY <3>1, <1>1, <1>2
  <2>2. (s \div 2) % 2 = z
    <3>1. s \div 2 = z + 2 * i + 4 * d + 8 * b + 16 * u + 32 * v + 64 * n
      BY <1>1, <1>2, <1>4
    <3> QED BY <3>1, <1>1
  <2>3. (s \div 4) % 2 = i
    <3>1. s \div 4 = i + 2 * d + 4 * b + 8 * u + 16 * v + 32 * n
      BY <1>1, <1>2, <1>4
    <3> QED BY <3>1, <1>1
  <2>4. (s \div 8) % 2 = d
    <3>1. s \div 8 = d + 2 * b + 4 * u + 8 * v + 16 * n
      BY <1>1, <1>2, <1>4
    <3> QED BY <3>1, <1>1
  <2>5. (s \div 16) % 2 = b
    <3>1. s \div 16 = b + 2 * u + 4 * v + 8 * n
      BY <1>1, <1>2, <1>4
    <3> QED BY <3>1, <1>1
  <2>6. (s \div 32) % 2 = u
    <3>1. s \div 32 = u + 2 * v + 4 * n
      BY <1>1, <1>2, <1>4
    <3> QED BY <3>1, <1>1
  <2>7. (s \div 64) % 2 = v
    <3>1. s \div 64 = v + 2 * n
      BY <1>1, <1>2, <1>4
    <3> QED BY <3>1, <1>1
  <2>8. (s \div 128) % 2 = n
    <3>1. s \div 128 = n
      BY <1>1, <1>2, <1>4
    <3> QED BY <3>1, <1>1
  <2> QED BY <2>1, <2>2, <2>3, <2>4, <2>5, <2>6, <2>7, <2>8
<1>6. \A f \in Flag : (s \div Weight[f]) % 2 = 1 <=> f \in ps
  BY <1>3, <1>5 DEF Flag, Weight
<1>7. Flags(s) = ps
  BY <1>6 DEF Flags
<1> QED BY <1>4, <1>7 DEF s, Byte

LEMMA FlagsTyped ==
    ASSUME NEW ps \in SUBSET Flag, NEW a, NEW val
    PROVE  /\ WithZN(ps, val) \in SUBSET Flag
           /\ ADC(a, val, ps).p \in SUBSET Flag /\ SBC(a, val, ps).p \in SUBSET Flag
           /\ CMP(a, val, ps) \in SUBSET Flag
           /\ \A cond : With(ps, "C", cond) \in SUBSET Flag
  BY DEF With, WithZN, Flag, ADC, SBC, CMP

(* Shifts and rotations double and halve; what they shift out is the carry. *)
LEMMA ShiftsAreExact ==
    ASSUME NEW val \in Byte, NEW ps \in SUBSET Flag
    PROVE  /\ ASL(val, ps).v \in Byte /\ ASL(val, ps).v + 256 * Carry(ASL(val, ps).p) = 2 * val
           /\ ROL(val, ps).v \in Byte
           /\ ROL(val, ps).v + 256 * Carry(ROL(val, ps).p) = 2 * val + Carry(ps)
           /\ LSR(val, ps).v \in Byte /\ 2 * LSR(val, ps).v + Carry(LSR(val, ps).p) = val
           /\ ROR(val, ps).v \in Byte
           /\ 2 * ROR(val, ps).v + Carry(ROR(val, ps).p) = val + 256 * Carry(ps)
           /\ ASL(val, ps).p \in SUBSET Flag /\ ROL(val, ps).p \in SUBSET Flag
           /\ LSR(val, ps).p \in SUBSET Flag /\ ROR(val, ps).p \in SUBSET Flag
<1>1. Carry(ps) \in {0, 1}
  BY DEF Carry, One
<1>2. /\ ASL(val, ps).v = (2 * val) % 256 /\ ROL(val, ps).v = ((2 * val) % 256) + Carry(ps)
      /\ LSR(val, ps).v = val \div 2 /\ ROR(val, ps).v = val \div 2 + 128 * Carry(ps)
  BY DEF ASL, ROL, LSR, ROR, Result
<1>3. /\ Carry(ASL(val, ps).p) = One(val >= 128) /\ Carry(ROL(val, ps).p) = One(val >= 128)
      /\ Carry(LSR(val, ps).p) = One(val % 2 = 1) /\ Carry(ROR(val, ps).p) = One(val % 2 = 1)
  BY DEF ASL, ROL, LSR, ROR, Result, WithZN, With, Negative, Carry
<1>4. /\ ASL(val, ps).p \in SUBSET Flag /\ ROL(val, ps).p \in SUBSET Flag
      /\ LSR(val, ps).p \in SUBSET Flag /\ ROR(val, ps).p \in SUBSET Flag
  BY DEF ASL, ROL, LSR, ROR, Result, WithZN, With, Flag
<1>5. (2 * val) % 256 = IF val >= 128 THEN 2 * val - 256 ELSE 2 * val
  BY DEF Byte
<1> QED BY <1>1, <1>2, <1>3, <1>4, <1>5 DEF Byte, One

(* ROR undoes ROL, and ROL undoes ROR: the carry takes part in the rotation, *)
(* so no bit is lost.                                                       *)
THEOREM RotationsUndoEachOther ==
    ASSUME NEW val \in Byte, NEW ps \in SUBSET Flag
    PROVE  LET up == ROL(val, ps)     back  == ROR(up.v, up.p)
               down == ROR(val, ps)   again == ROL(down.v, down.p)
           IN  /\ back.v = val /\ Carry(back.p) = Carry(ps)
               /\ again.v = val /\ Carry(again.p) = Carry(ps)
<1> DEFINE up == ROL(val, ps)     back  == ROR(up.v, up.p)
           down == ROR(val, ps)   again == ROL(down.v, down.p)
<1>1. /\ up.v \in Byte /\ up.p \in SUBSET Flag /\ up.v + 256 * Carry(up.p) = 2 * val + Carry(ps)
      /\ down.v \in Byte /\ down.p \in SUBSET Flag
      /\ 2 * down.v + Carry(down.p) = val + 256 * Carry(ps)
  BY ShiftsAreExact
<1>2. /\ back.v \in Byte /\ 2 * back.v + Carry(back.p) = up.v + 256 * Carry(up.p)
      /\ again.v \in Byte /\ again.v + 256 * Carry(again.p) = 2 * down.v + Carry(down.p)
  <2> HIDE DEF up, down
  <2> QED BY <1>1, ShiftsAreExact
<1>3. \A qs : Carry(qs) \in {0, 1}
  BY DEF Carry, One
<1> HIDE DEF up, down, back, again
<1>4. back.v = val /\ Carry(back.p) = Carry(ps)
  <2> DEFINE b == back.v  c == Carry(back.p)  d == Carry(ps)
  <2>1. b \in 0 .. 255 /\ val \in 0 .. 255 /\ c \in {0, 1} /\ d \in {0, 1}
    BY <1>2, <1>3 DEF Byte
  <2>2. 2 * b + c = 2 * val + d
    BY <1>1, <1>2
  <2> HIDE DEF b, c, d
  <2>3. b = val /\ c = d
    BY <2>1, <2>2
  <2> QED BY <2>3 DEF b, c, d
<1>5. again.v = val /\ Carry(again.p) = Carry(ps)
  BY <1>1, <1>2, <1>3 DEF Byte
<1> QED BY <1>4, <1>5 DEF up, down, back, again

-----------------------------------------------------------------------------
(* Induction and recursion                                                  *)

(* Induction, for a set: the library's theorems are about operators.        *)
LEMMA InductionOnSet ==
    ASSUME NEW S, 0 \in S, \A n \in Nat : n \in S => n + 1 \in S
    PROVE  Nat \subseteq S
<1> DEFINE T == Nat \ S
<1> SUFFICES ASSUME T # {} PROVE FALSE
  OBVIOUS
<1>1. PICK m \in T : \A n \in T : ~(<<n, m>> \in OpToRel(<, Nat))
  <2>1. IsWellFoundedOn(OpToRel(<, Nat), Nat)
    BY NatLessThanWellFounded
  <2>2. T \subseteq Nat
    OBVIOUS
  <2> HIDE DEF T
  <2> QED BY <2>1, <2>2, WFMin
<1>2. \A n \in T : ~(n < m)
  BY <1>1 DEF OpToRel
<1>3. m \in Nat /\ m # 0 /\ m - 1 \in Nat
  OBVIOUS
<1>4. m - 1 \in S
  BY <1>2, <1>3
<1> QED BY <1>3, <1>4

LEMMA InductionUpTo ==
    ASSUME NEW N \in Nat, NEW S, 0 \in S, \A n \in 1 .. N : n - 1 \in S => n \in S
    PROVE  0 .. N \subseteq S
<1> DEFINE T == {n \in Nat : n <= N => n \in S}
<1>1. 0 \in T /\ \A n \in Nat : n \in T => n + 1 \in T
  <2>1. ASSUME NEW n \in Nat, n \in T, n + 1 <= N PROVE n + 1 \in S
    <3>1. n \in S /\ n + 1 \in 1 .. N /\ (n + 1) - 1 = n
      BY <2>1
    <3> QED BY <3>1
  <2> QED BY <2>1
<1>2. Nat \subseteq T
  <2> HIDE DEF T
  <2> QED BY <1>1, InductionOnSet
<1> QED BY <1>2

(* f begins with a, and goes on with H of the value before.                 *)
Recursive(f, N, a, H) == f = [n \in 0 .. N |-> IF n = 0 THEN a ELSE H[n][f[n - 1]]]

(* There is such a function.                                                *)
LEMMA RecursionDefines ==
    ASSUME NEW N \in Nat, NEW X, NEW a \in X, NEW H \in [1 .. N -> [X -> X]]
    PROVE  \E f \in [0 .. N -> X] : Recursive(f, N, a, H)
<1> DEFINE Rec(f, k) == \A n \in 0 .. k : f[n] = IF n = 0 THEN a ELSE H[n][f[n - 1]]
           Found(k) == \E f \in [0 .. k -> X] : Rec(f, k)
           S == {k \in Nat : Found(k)}
<1>1. Found(0)
  <2> DEFINE f == [n \in 0 .. 0 |-> a]
  <2>1. f \in [0 .. 0 -> X] /\ Rec(f, 0)
    OBVIOUS
  <2> QED BY <2>1
<1>2. ASSUME NEW k \in Nat, Found(k), k + 1 <= N
      PROVE  Found(k + 1)
  <2>1. PICK f \in [0 .. k -> X] : Rec(f, k)
    BY <1>2
  <2> DEFINE last == H[k + 1][f[k]]
             g == [n \in 0 .. k + 1 |-> IF n = k + 1 THEN last ELSE f[n]]
  <2>2. last \in X
    <3>1. f[k] \in X /\ k + 1 \in 1 .. N
      BY <1>2
    <3> QED BY <3>1
  <2>3. g[k + 1] = last /\ \A n \in 0 .. k : g[n] = f[n]
    <3> HIDE DEF last
    <3> QED OBVIOUS
  <2>4. g \in [0 .. k + 1 -> X]
    <3> HIDE DEF last
    <3>1. \A n \in 0 .. k + 1 : n # k + 1 => f[n] \in X
      OBVIOUS
    <3> QED BY <2>2, <3>1
  <2>5. ASSUME NEW n \in 0 .. k + 1
        PROVE  g[n] = IF n = 0 THEN a ELSE H[n][g[n - 1]]
    <3>1. CASE n = k + 1
      <4>1. n # 0 /\ n - 1 = k /\ k \in 0 .. k
        BY <3>1
      <4> HIDE DEF g
      <4> QED BY <2>3, <3>1, <4>1
    <3>2. CASE n # k + 1
      <4>1. n \in 0 .. k /\ f[n] = IF n = 0 THEN a ELSE H[n][f[n - 1]]
        BY <2>1, <3>2
      <4>2. g[n] = f[n] /\ (n # 0 => g[n - 1] = f[n - 1])
        <5> HIDE DEF g
        <5> QED BY <2>3, <4>1
      <4> HIDE DEF g
      <4> QED BY <4>1, <4>2
    <3> QED BY <3>1, <3>2
  <2> HIDE DEF g
  <2> QED BY <2>4, <2>5
<1>3. Found(N)
  <2>1. \A k \in 1 .. N : Found(k - 1) => Found(k)
    <3>1. ASSUME NEW k \in 1 .. N, Found(k - 1) PROVE Found(k)
      <4>1. k - 1 \in Nat /\ (k - 1) + 1 = k
        OBVIOUS
      <4> HIDE DEF Found
      <4>2. Found((k - 1) + 1)
        BY <1>2, <3>1, <4>1
      <4> QED BY <4>1, <4>2
    <3> QED BY <3>1
  <2> HIDE DEF Found
  <2>2. 0 \in S /\ \A k \in 1 .. N : k - 1 \in S => k \in S
    BY <1>1, <2>1
  <2>3. 0 .. N \subseteq S
    <3> HIDE DEF S
    <3> QED BY <2>2, InductionUpTo
  <2> QED BY <2>3
<1>4. PICK f \in [0 .. N -> X] : Rec(f, N)
  BY <1>3
<1> QED BY <1>4 DEF Recursive
=============================================================================
