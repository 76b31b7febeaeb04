---------------------------- MODULE StackLemmas ----------------------------
(***************************************************************************)
(* Facts about the stack operators that hold for every page size.          *)
(***************************************************************************)
EXTENDS Stack, SequenceTheorems, TLAPS

(* An address splits into two bytes, and MakeWord puts them together       *)
(* again: what write16 and read16 rely on.                                 *)
LEMMA WordSplits ==
    ASSUME NEW w \in Word
    PROVE  /\ Lo(w) \in Byte
           /\ Hi(w) \in Byte
           /\ MakeWord(Hi(w), Lo(w)) = w
  <1>1. W \in Nat /\ W > 0
    BY WidthAssumption
  <1>2. Lo(w) \in Byte
    BY <1>1 DEF Lo, Byte, Word
  <1>3. MakeWord(Hi(w), Lo(w)) = w
    BY <1>1 DEF MakeWord, Hi, Lo, Word
  <1>4. Hi(w) \in Int
    BY <1>1 DEF Hi, Word
  <1>5. Hi(w) >= 0
    BY <1>1 DEF Hi, Word
  <1>6. Hi(w) < W
    BY <1>1, <1>2, <1>3, <1>4 DEF MakeWord, Byte, Word
  <1> QED
    BY <1>1, <1>2, <1>3, <1>4, <1>5, <1>6 DEF Byte

(* Two bytes make an address.                                              *)
LEMMA WordJoins ==
    ASSUME NEW hi \in Byte, NEW lo \in Byte
    PROVE  /\ MakeWord(hi, lo) \in Word
           /\ Hi(MakeWord(hi, lo)) = hi
           /\ Lo(MakeWord(hi, lo)) = lo
  <1>1. W \in Nat /\ W > 0
    BY WidthAssumption
  <1>2. W * hi \in Nat /\ W * hi <= W * (W - 1)
    BY <1>1 DEF Byte
  <1>3. MakeWord(hi, lo) \in Word
    BY <1>1, <1>2 DEF MakeWord, Word, Byte
  <1>4. Hi(MakeWord(hi, lo)) = hi
    BY <1>1 DEF Hi, MakeWord, Byte
  <1>5. Lo(MakeWord(hi, lo)) = lo
    BY <1>1 DEF Lo, MakeWord, Byte
  <1> QED
    BY <1>3, <1>4, <1>5

-----------------------------------------------------------------------------
(* SP_ stays in its page, and the byte k above the stack pointer is another *)
(* cell than the stack pointer's own.                                       *)
LEMMA RingArithmetic ==
    ASSUME NEW sp \in Byte, NEW k \in 1 .. W
    PROVE  /\ Up(sp, k) \in Byte
           /\ Down(sp, k) \in Byte
           /\ Up(Down(sp, 1), k) = IF k = 1 THEN sp ELSE Up(sp, k - 1)
           /\ k >= 2 => Up(Down(sp, 2), k) = IF k = 2 THEN sp ELSE Up(sp, k - 2)
           /\ Up(Up(sp, 1), k) = IF k < W THEN Up(sp, k + 1) ELSE Up(sp, 1)
           /\ k + 2 <= W => Up(Up(sp, 2), k) = Up(sp, k + 2)
           /\ k < W => Up(sp, k) # sp
  BY WidthAssumption DEF Up, Down, Byte

(* A 16-bit push leaves a stack.                                            *)
LEMMA Push16Type ==
    ASSUME NEW s \in StackType, NEW w \in Word
    PROVE  Push16(s, w) \in StackType
  <1>1. s.sp \in Byte /\ s.mem \in [Cell -> Byte]
    BY DEF StackType
  <1>2. Lo(w) \in Byte /\ Hi(w) \in Byte
    BY WordSplits
  <1>3. Down(s.sp, 2) \in Byte
    BY <1>1, WidthAssumption DEF Down, Byte
  <1>4. [s.mem EXCEPT ![Top] = Lo(w)] \in [Cell -> Byte]
    BY <1>1, <1>2
  <1>5. [s.mem EXCEPT ![s.sp - 1] = Lo(w), ![s.sp] = Hi(w)] \in [Cell -> Byte]
    BY <1>1, <1>2
  <1> QED
    BY <1>3, <1>4, <1>5 DEF Push16, StackType

LEMMA PushType ==
    ASSUME NEW s \in StackType, NEW v \in Byte
    PROVE  Push(s, v) \in StackType
  <1>1. s.sp \in Byte /\ s.mem \in [Cell -> Byte]
    BY DEF StackType
  <1>2. Down(s.sp, 1) \in Byte
    BY <1>1, WidthAssumption DEF Down, Byte
  <1>3. [s.mem EXCEPT ![s.sp] = v] \in [Cell -> Byte]
    BY <1>1
  <1> QED
    BY <1>2, <1>3 DEF Push, StackType

LEMMA PopType ==
    ASSUME NEW s \in StackType
    PROVE  /\ Pop(s) \in StackType
           /\ Popped(s) \in Byte
           /\ Pop16(s) \in StackType
           /\ Popped16(s) \in Word
  <1>1. s.sp \in Byte /\ s.mem \in [Cell -> Byte]
    BY DEF StackType
  <1>2. Up(s.sp, 1) \in Byte /\ Up(s.sp, 2) \in Byte
    BY <1>1, WidthAssumption DEF Up, Byte
  <1>3. Byte \subseteq Cell /\ Top \in Cell /\ Zero \in Cell
    BY WidthAssumption DEF Byte, Cell, Top, Zero
  <1>4. Popped(s) \in Byte
    BY <1>1, <1>2, <1>3 DEF Popped
  <1>5. Pop(s) \in StackType /\ Pop16(s) \in StackType
    BY <1>1, <1>2 DEF Pop, Pop16, StackType
  <1>6. CASE Up(s.sp, 2) = 0
    <2>1. s.mem[Zero] \in Byte /\ s.mem[Top] \in Byte
      BY <1>1, <1>3
    <2> QED
      BY <1>4, <1>5, <1>6, <2>1, WordJoins DEF Popped16
  <1>7. CASE Up(s.sp, 2) # 0
    <2>1. Up(s.sp, 2) - 1 \in Byte
      BY <1>2, <1>7, WidthAssumption DEF Byte
    <2>2. s.mem[Up(s.sp, 2)] \in Byte /\ s.mem[Up(s.sp, 2) - 1] \in Byte
      BY <1>1, <1>2, <1>3, <2>1
    <2> QED
      BY <1>4, <1>5, <1>7, <2>2, WordJoins DEF Popped16
  <1> QED
    BY <1>6, <1>7

-----------------------------------------------------------------------------
(* A word and a byte pushed, as trigger_nmi does, come back in the opposite *)
(* order, as RTI takes them; SP_ is then where it was, and what lies above  *)
(* it is untouched.  With SP_ < 2 the three bytes would leave the page.     *)
LEMMA InterruptRoundTrip ==
    ASSUME NEW s \in StackType, s.sp >= 2, NEW w \in Word, NEW b \in Byte
    PROVE  LET t == Push(Push16(s, w), b)
           IN  /\ Popped(t) = b
               /\ Popped16(Pop(t)) = w
               /\ Pop16(Pop(t)).sp = s.sp
               /\ \A c \in Byte : c > s.sp => t.mem[c] = s.mem[c]
  <1> DEFINE mid == Push16(s, w)
             t == Push(mid, b)
  <1>1. s.sp \in Byte /\ s.mem \in [Cell -> Byte]
    BY DEF StackType
  <1>2. mid.sp = s.sp - 2 /\ mid.mem = [s.mem EXCEPT ![s.sp - 1] = Lo(w), ![s.sp] = Hi(w)]
    BY <1>1 DEF Push16, Down, Byte
  <1>3. t.sp = Down(s.sp - 2, 1) /\ t.mem = [mid.mem EXCEPT ![s.sp - 2] = b]
    BY <1>2 DEF Push
  <1>4. Up(t.sp, 1) = s.sp - 2 /\ Up(s.sp - 2, 2) = s.sp
    BY <1>1, <1>3, WidthAssumption DEF Up, Down, Byte
  <1>5. {s.sp - 2, s.sp - 1, s.sp} \subseteq Cell
    BY <1>1, WidthAssumption DEF Cell, Byte
  <1>6. t.mem[s.sp - 2] = b /\ t.mem[s.sp - 1] = Lo(w) /\ t.mem[s.sp] = Hi(w)
    BY <1>1, <1>2, <1>3, <1>5 DEF Byte
  <1>7. Popped(t) = b
    BY <1>4, <1>6 DEF Popped
  <1>8. Pop(t).sp = s.sp - 2 /\ Pop(t).mem = t.mem
    BY <1>4 DEF Pop, Push
  <1>9. Popped16(Pop(t)) = w
    BY <1>1, <1>4, <1>6, <1>8, WordSplits DEF Popped16
  <1>10. Pop16(Pop(t)).sp = s.sp
    BY <1>4, <1>8 DEF Pop16, Pop, Push
  <1>11. ASSUME NEW c \in Byte, c > s.sp PROVE t.mem[c] = s.mem[c]
    <2>1. c \in Cell /\ c # s.sp /\ c # s.sp - 1 /\ c # s.sp - 2
      BY <1>1, <1>11, WidthAssumption DEF Byte, Cell
    <2>2. mid.mem[c] = s.mem[c]
      BY <1>1, <1>2, <2>1
    <2>3. mid.mem \in [Cell -> Byte]
      BY Push16Type DEF StackType
    <2>4. t.mem[c] = mid.mem[c]
      BY <1>3, <2>1, <2>3
    <2> QED
      BY <2>2, <2>4
  <1> QED
    BY <1>7, <1>9, <1>10, <1>11

-----------------------------------------------------------------------------
(* The four operations where SP_ does not leave the page: which cells they  *)
(* write, and what they answer.                                             *)
LEMMA PushInPage ==
    ASSUME NEW s \in StackType, NEW v \in Byte, s.sp >= 1
    PROVE  /\ Push(s, v).sp = s.sp - 1
           /\ Push(s, v).mem[s.sp] = v
           /\ \A c \in Cell : c > s.sp => Push(s, v).mem[c] = s.mem[c]
  <1>1. s.sp \in Byte /\ s.mem \in [Cell -> Byte]
    BY DEF StackType
  <1>2. s.sp \in Cell /\ s.sp \in Int
    BY <1>1, WidthAssumption DEF Byte, Cell
  <1>3. Push(s, v).sp = s.sp - 1
    BY <1>2 DEF Push, Down
  <1>4. Push(s, v).mem = [s.mem EXCEPT ![s.sp] = v]
    BY DEF Push
  <1>5. ASSUME NEW c \in Cell, c > s.sp PROVE Push(s, v).mem[c] = s.mem[c]
    <2>1. c # s.sp
      BY <1>2, <1>5, WidthAssumption DEF Cell
    <2> QED
      BY <1>1, <1>4, <2>1
  <1> QED
    BY <1>1, <1>2, <1>3, <1>4, <1>5

LEMMA Push16InPage ==
    ASSUME NEW s \in StackType, NEW w \in Word, s.sp >= 2
    PROVE  /\ Push16(s, w).sp = s.sp - 2
           /\ Push16(s, w).mem[s.sp] = Hi(w)
           /\ Push16(s, w).mem[s.sp - 1] = Lo(w)
           /\ \A c \in Cell : c > s.sp => Push16(s, w).mem[c] = s.mem[c]
  <1>1. s.sp \in Byte /\ s.mem \in [Cell -> Byte]
    BY DEF StackType
  <1>2. s.sp \in Cell /\ s.sp - 1 \in Cell /\ s.sp \in Int
    BY <1>1, WidthAssumption DEF Byte, Cell
  <1>3. Push16(s, w).sp = s.sp - 2
    BY <1>2 DEF Push16, Down
  <1>4. Push16(s, w).mem = [s.mem EXCEPT ![s.sp - 1] = Lo(w), ![s.sp] = Hi(w)]
    BY <1>2 DEF Push16
  <1>5. s.sp - 1 # s.sp
    BY <1>2
  <1>6. ASSUME NEW c \in Cell, c > s.sp PROVE Push16(s, w).mem[c] = s.mem[c]
    <2>1. c # s.sp /\ c # s.sp - 1
      BY <1>2, <1>6, WidthAssumption DEF Cell
    <2> QED
      BY <1>1, <1>4, <2>1
  <1> QED
    BY <1>1, <1>2, <1>3, <1>4, <1>5, <1>6

LEMMA PopInPage ==
    ASSUME NEW s \in StackType
    PROVE  /\ s.sp + 1 < W => /\ Pop(s) = [s EXCEPT !.sp = s.sp + 1]
                              /\ Popped(s) = s.mem[s.sp + 1]
           /\ s.sp + 2 < W => /\ Pop16(s) = [s EXCEPT !.sp = s.sp + 2]
                              /\ Popped16(s) = MakeWord(s.mem[s.sp + 2], s.mem[s.sp + 1])
  <1>1. s.sp \in Byte
    BY DEF StackType
  <1>2. s.sp + 1 < W => Up(s.sp, 1) = s.sp + 1
    BY DEF Up
  <1>3. s.sp + 2 < W => Up(s.sp, 2) = s.sp + 2 /\ s.sp + 2 # 0 /\ (s.sp + 2) - 1 = s.sp + 1
    BY <1>1, WidthAssumption DEF Up, Byte
  <1> QED
    BY <1>2, <1>3 DEF Pop, Popped, Pop16, Popped16

-----------------------------------------------------------------------------
(* The same seen as a sequence of bytes.                                    *)
LEMMA AboveType ==
    ASSUME NEW mem \in [Cell -> Byte], NEW sp \in Byte
    PROVE  /\ Above(mem, sp) \in Seq(Byte)
           /\ Len(Above(mem, sp)) = W - 1 - sp
           /\ \A k \in 1 .. (W - 1 - sp) : Above(mem, sp)[k] = mem[sp + k]
  <1>1. W - 1 - sp \in Nat
    BY WidthAssumption DEF Byte
  <1>2. \A k \in 1 .. (W - 1 - sp) : mem[sp + k] \in Byte
    BY WidthAssumption DEF Byte, Cell
  <1>3. Above(mem, sp) \in [1 .. (W - 1 - sp) -> Byte]
    BY <1>2 DEF Above
  <1>4. Above(mem, sp) \in Seq(Byte)
    BY <1>1, <1>3, SeqDef
  <1> QED
    BY <1>1, <1>4 DEF Above

LEMMA AboveUnchanged ==
    ASSUME NEW mem, NEW mem2, NEW sp \in Byte,
           \A c \in Cell : c > sp => mem2[c] = mem[c]
    PROVE  Above(mem2, sp) = Above(mem, sp)
  <1>1. \A k \in 1 .. (W - 1 - sp) : sp + k \in Cell /\ sp + k > sp
    BY WidthAssumption DEF Byte, Cell
  <1> QED
    BY <1>1 DEF Above

LEMMA AboveGrows ==
    ASSUME NEW mem \in [Cell -> Byte], NEW sp \in Byte, sp >= 1
    PROVE  Above(mem, sp - 1) = <<mem[sp]>> \o Above(mem, sp)
  <1> DEFINE s == Above(mem, sp - 1)
             one == <<mem[sp]>>
             t == Above(mem, sp)
  <1>1. sp - 1 \in Byte /\ mem[sp] \in Byte /\ W \in Nat /\ sp \in Nat /\ sp < W
    BY WidthAssumption DEF Byte, Cell
  <1>2. /\ s \in Seq(Byte) /\ Len(s) = W - sp
        /\ \A k \in 1 .. (W - sp) : s[k] = mem[sp - 1 + k]
    <2>1. W - 1 - (sp - 1) = W - sp
      BY <1>1
    <2> QED
      BY <1>1, <2>1, AboveType
  <1>3. /\ t \in Seq(Byte) /\ Len(t) = W - 1 - sp
        /\ \A k \in 1 .. (W - 1 - sp) : t[k] = mem[sp + k]
    BY AboveType
  <1>4. one \in Seq(Byte) /\ Len(one) = 1 /\ one[1] = mem[sp]
    BY <1>1
  <1> HIDE DEF s, one, t
  <1>5. /\ one \o t \in Seq(Byte) /\ Len(one \o t) = Len(one) + Len(t)
        /\ \A i \in 1 .. Len(one) + Len(t) :
             (one \o t)[i] = IF i <= Len(one) THEN one[i] ELSE t[i - Len(one)]
    BY <1>3, <1>4, ConcatProperties
  <1>6. Len(one) + Len(t) = W - sp
    BY <1>1, <1>3, <1>4
  <1>7. ASSUME NEW i \in 1 .. (W - sp) PROVE s[i] = (one \o t)[i]
    <2>1. CASE i = 1
      <3>1. s[i] = mem[sp]
        BY <1>1, <1>2, <2>1
      <3>2. (one \o t)[i] = one[1]
        BY <1>4, <1>5, <1>6, <2>1
      <3> QED
        BY <1>4, <3>1, <3>2
    <2>2. CASE i # 1
      <3>1. i - 1 \in 1 .. (W - 1 - sp) /\ sp - 1 + i = sp + (i - 1) /\ ~(i <= 1)
        BY <1>1, <2>2
      <3>2. (one \o t)[i] = t[i - 1]
        BY <1>4, <1>5, <1>6, <3>1
      <3>3. s[i] = mem[sp + (i - 1)] /\ t[i - 1] = mem[sp + (i - 1)]
        BY <1>2, <1>3, <3>1
      <3> QED
        BY <3>2, <3>3
    <2> QED
      BY <2>1, <2>2
  <1>8. s = one \o t
    BY <1>2, <1>5, <1>6, <1>7, SeqEqual
  <1> QED
    BY <1>8 DEF s, one, t

LEMMA AboveDrops ==
    ASSUME NEW mem \in [Cell -> Byte], NEW sp \in Byte, NEW n \in 1 .. 3, sp + n < W
    PROVE  SubSeq(Above(mem, sp), n + 1, Len(Above(mem, sp))) = Above(mem, sp + n)
  <1> DEFINE s == Above(mem, sp)
             r == SubSeq(s, n + 1, Len(s))
             t == Above(mem, sp + n)
  <1>1. sp + n \in Byte /\ W \in Nat /\ sp \in Nat /\ n \in Nat
    BY WidthAssumption DEF Byte
  <1>2. /\ s \in Seq(Byte) /\ Len(s) = W - 1 - sp
        /\ \A k \in 1 .. (W - 1 - sp) : s[k] = mem[sp + k]
    BY AboveType
  <1>3. /\ t \in Seq(Byte) /\ Len(t) = W - 1 - (sp + n)
        /\ \A k \in 1 .. (W - 1 - (sp + n)) : t[k] = mem[(sp + n) + k]
    BY <1>1, AboveType
  <1> HIDE DEF s, t
  <1>4. \A i \in (n + 1) .. Len(s) : s[i] \in Byte
    BY <1>1, <1>2, ElementOfSeq
  <1>5. n + 1 \in Int /\ Len(s) \in Int
    BY <1>1, <1>2
  <1>6. /\ r \in Seq(Byte)
        /\ Len(r) = IF n + 1 <= Len(s) THEN Len(s) - (n + 1) + 1 ELSE 0
        /\ \A i \in 1 .. Len(s) - (n + 1) + 1 : r[i] = s[(n + 1) + i - 1]
    BY <1>4, <1>5, SubSeqProperties
  <1> HIDE DEF r
  <1>7. Len(r) = W - 1 - (sp + n) /\ Len(s) - (n + 1) + 1 = W - 1 - (sp + n)
    BY <1>1, <1>2, <1>6
  <1>8. ASSUME NEW i \in 1 .. Len(r) PROVE r[i] = t[i]
    <2>1. /\ (n + 1) + i - 1 \in 1 .. (W - 1 - sp)
          /\ sp + ((n + 1) + i - 1) = (sp + n) + i
          /\ i \in 1 .. (W - 1 - (sp + n))
      BY <1>1, <1>7
    <2>2. r[i] = mem[(sp + n) + i]
      BY <1>2, <1>6, <1>7, <2>1
    <2> QED
      BY <1>3, <2>1, <2>2
  <1>9. r = t
    BY <1>3, <1>6, <1>7, <1>8, SeqEqual
  <1> QED
    BY <1>9 DEF r, s, t

(* Pushing puts bytes before the others, a word's low byte first; popping   *)
(* takes from the front.                                                    *)
LEMMA PushSequence ==
    ASSUME NEW s \in StackType, NEW v \in Byte, s.sp >= 1
    PROVE  Above(Push(s, v).mem, Push(s, v).sp) = <<v>> \o Above(s.mem, s.sp)
  <1> DEFINE t == Push(s, v)
  <1>1. /\ t.sp = s.sp - 1 /\ t.mem[s.sp] = v
        /\ \A c \in Cell : c > s.sp => t.mem[c] = s.mem[c]
    BY PushInPage
  <1>2. s.sp \in Byte /\ t.mem \in [Cell -> Byte]
    BY PushType DEF StackType
  <1> HIDE DEF t
  <1>3. Above(t.mem, s.sp - 1) = <<v>> \o Above(t.mem, s.sp)
    BY <1>1, <1>2, AboveGrows
  <1>4. Above(t.mem, s.sp) = Above(s.mem, s.sp)
    BY <1>1, <1>2, AboveUnchanged
  <1> QED
    BY <1>1, <1>3, <1>4 DEF t

LEMMA Push16Sequence ==
    ASSUME NEW s \in StackType, NEW w \in Word, s.sp >= 2
    PROVE  Above(Push16(s, w).mem, Push16(s, w).sp)
             = <<Lo(w), Hi(w)>> \o Above(s.mem, s.sp)
  <1> DEFINE t == Push16(s, w)
             rest == Above(s.mem, s.sp)
  <1>1. /\ t.sp = s.sp - 2 /\ t.mem[s.sp] = Hi(w) /\ t.mem[s.sp - 1] = Lo(w)
        /\ \A c \in Cell : c > s.sp => t.mem[c] = s.mem[c]
    BY Push16InPage
  <1>2. s.sp \in Byte /\ t.mem \in [Cell -> Byte] /\ s.mem \in [Cell -> Byte]
    BY Push16Type DEF StackType
  <1>3. s.sp - 1 \in Byte /\ s.sp - 1 >= 1 /\ (s.sp - 1) - 1 = s.sp - 2 /\ s.sp >= 1
    BY <1>2, WidthAssumption DEF Byte
  <1>4. Lo(w) \in Byte /\ Hi(w) \in Byte
    BY WordSplits
  <1>5. rest \in Seq(Byte)
    BY <1>2, AboveType
  <1>6. Above(t.mem, s.sp) = rest
    BY <1>1, <1>2, AboveUnchanged
  <1> HIDE DEF t, rest
  <1>7. Above(t.mem, s.sp - 1) = <<Hi(w)>> \o Above(t.mem, s.sp)
    BY <1>1, <1>2, <1>3, AboveGrows
  <1>8. Above(t.mem, (s.sp - 1) - 1) = <<Lo(w)>> \o Above(t.mem, s.sp - 1)
    BY <1>1, <1>2, <1>3, AboveGrows
  <1>9. Above(t.mem, s.sp - 2) = <<Lo(w)>> \o (<<Hi(w)>> \o rest)
    BY <1>3, <1>6, <1>7, <1>8
  <1>10. <<Lo(w)>> \in Seq(Byte) /\ <<Hi(w)>> \in Seq(Byte)
    BY <1>4
  <1>11. (<<Lo(w)>> \o <<Hi(w)>>) \o rest = <<Lo(w)>> \o (<<Hi(w)>> \o rest)
    BY <1>5, <1>10, ConcatAssociative
  <1>12. <<Lo(w)>> \o <<Hi(w)>> = <<Lo(w), Hi(w)>>
    <2> DEFINE both == <<Lo(w)>> \o <<Hi(w)>>
    <2>1. both \in Seq(Byte) /\ Len(both) = 2 /\ both[1] = Lo(w) /\ both[2] = Hi(w)
      BY <1>4
    <2>2. /\ <<Lo(w), Hi(w)>> \in Seq(Byte) /\ Len(<<Lo(w), Hi(w)>>) = 2
          /\ <<Lo(w), Hi(w)>>[1] = Lo(w) /\ <<Lo(w), Hi(w)>>[2] = Hi(w)
      BY <1>4
    <2> HIDE DEF both
    <2>3. \A i \in 1 .. Len(both) : both[i] = <<Lo(w), Hi(w)>>[i]
      BY <2>1, <2>2
    <2> QED
      BY <2>1, <2>2, <2>3, SeqEqual DEF both
  <1> QED
    BY <1>1, <1>9, <1>11, <1>12 DEF t, rest

LEMMA PopSequence ==
    ASSUME NEW s \in StackType
    PROVE  LET a == Above(s.mem, s.sp)
           IN  /\ s.sp + 1 < W =>
                    /\ Popped(s) = a[1]
                    /\ Above(Pop(s).mem, Pop(s).sp) = SubSeq(a, 2, Len(a))
               /\ s.sp + 2 < W =>
                    /\ Popped16(s) = MakeWord(a[2], a[1])
                    /\ Above(Pop16(s).mem, Pop16(s).sp) = SubSeq(a, 3, Len(a))
  <1> DEFINE a == Above(s.mem, s.sp)
  <1>1. s.sp \in Byte /\ s.mem \in [Cell -> Byte]
    BY DEF StackType
  <1>2. \A k \in 1 .. (W - 1 - s.sp) : a[k] = s.mem[s.sp + k]
    BY <1>1, AboveType
  <1>3. \A n \in 1 .. 3 : s.sp + n < W => SubSeq(a, n + 1, Len(a)) = Above(s.mem, s.sp + n)
    BY <1>1, AboveDrops
  <1>4. s.sp \in Int /\ W \in Int
    BY <1>1, WidthAssumption DEF Byte
  <1> HIDE DEF a
  <1>5. ASSUME s.sp + 1 < W
        PROVE  Popped(s) = a[1] /\ Above(Pop(s).mem, Pop(s).sp) = SubSeq(a, 2, Len(a))
    <2>1. Popped(s) = s.mem[s.sp + 1] /\ Pop(s).sp = s.sp + 1 /\ Pop(s).mem = s.mem
      BY <1>5, PopInPage DEF StackType
    <2>2. a[1] = s.mem[s.sp + 1]
      BY <1>2, <1>4, <1>5
    <2>3. SubSeq(a, 1 + 1, Len(a)) = Above(s.mem, s.sp + 1)
      BY <1>3, <1>5
    <2> QED
      BY <2>1, <2>2, <2>3
  <1>6. ASSUME s.sp + 2 < W
        PROVE  /\ Popped16(s) = MakeWord(a[2], a[1])
               /\ Above(Pop16(s).mem, Pop16(s).sp) = SubSeq(a, 3, Len(a))
    <2>1. /\ Popped16(s) = MakeWord(s.mem[s.sp + 2], s.mem[s.sp + 1])
          /\ Pop16(s).sp = s.sp + 2 /\ Pop16(s).mem = s.mem
      BY <1>6, PopInPage DEF StackType
    <2>2. a[1] = s.mem[s.sp + 1] /\ a[2] = s.mem[s.sp + 2]
      BY <1>2, <1>4, <1>6
    <2>3. SubSeq(a, 2 + 1, Len(a)) = Above(s.mem, s.sp + 2)
      BY <1>3, <1>6
    <2> QED
      BY <2>1, <2>2, <2>3
  <1> QED
    BY <1>5, <1>6 DEF a
=============================================================================
