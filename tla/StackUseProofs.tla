--------------------------- MODULE StackUseProofs ---------------------------
(***************************************************************************)
(* For every page size and every client: the stack keeps its type, every   *)
(* byte the client still expects is where the next pops read it, and a     *)
(* wrong 16-bit pop has been reported.                                     *)
(***************************************************************************)
EXTENDS StackUse, StackLemmas

LEMMA InitType == Init => TypeOK
  <1> SUFFICES ASSUME Init PROVE TypeOK
    OBVIOUS
  <1>1. W - 3 \in Byte /\ 0 \in Byte
    BY WidthAssumption DEF Byte
  <1>a. [c \in Cell |-> IF c = Top THEN LastCell ELSE 0] \in [Cell -> Byte]
    <2>1. \A c \in Cell : (IF c = Top THEN LastCell ELSE 0) \in Byte
      BY <1>1, DataAssumption
    <2> QED
      BY <2>1
  <1>2. stk \in StackType
    BY <1>1, <1>a DEF Init, StackType
  <1>3. live \in [1 .. W -> Byte]
    BY <1>1 DEF Init
  <1>4. depth \in 0 .. W
    BY WidthAssumption DEF Init
  <1>5. warned \in BOOLEAN
    BY Zenon DEF Init
  <1> QED
    BY <1>2, <1>3, <1>4, <1>5 DEF TypeOK

LEMMA StoredType ==
    ASSUME TypeOK, NEW n \in 1 .. 2, NEW newest \in [1 .. n -> Byte], Stored(n, newest)
    PROVE  live' \in [1 .. W -> Byte] /\ depth' \in 0 .. W
  <1>1. \A k \in 1 .. W : k > n => k - n \in 1 .. W
    BY WidthAssumption
  <1>2. live' \in [1 .. W -> Byte]
    BY <1>1 DEF TypeOK, Stored
  <1>3. depth' \in 0 .. W
    BY WidthAssumption DEF TypeOK, Stored
  <1> QED
    BY <1>2, <1>3

LEMMA TakenType ==
    ASSUME TypeOK, NEW n \in 1 .. 2, Taken(n)
    PROVE  live' \in [1 .. W -> Byte] /\ depth' \in 0 .. W
  <1>1. \A k \in 1 .. W : k + n <= W => k + n \in 1 .. W
    BY WidthAssumption
  <1>2. live' \in [1 .. W -> Byte]
    BY <1>1, WidthAssumption DEF TypeOK, Taken, Byte
  <1>3. depth' \in 0 .. W
    BY WidthAssumption DEF TypeOK, Taken
  <1> QED
    BY <1>2, <1>3

LEMMA NextType == TypeOK /\ [Next]_vars => TypeOK'
  <1> SUFFICES ASSUME TypeOK, [Next]_vars PROVE TypeOK'
    OBVIOUS
  <1> USE DEF TypeOK
  <1>1. CASE \E v \in Data : PushByte(v)
    <2> PICK v \in Data : PushByte(v)
      BY <1>1
    <2>1. v \in Byte /\ <<v>> \in [1 .. 1 -> Byte]
      BY DataAssumption
    <2>2. stk' \in StackType
      BY <2>1, PushType DEF PushByte
    <2>3. warned' \in BOOLEAN
      BY DEF PushByte, PushComplains
    <2> QED
      BY <2>1, <2>2, <2>3, StoredType DEF PushByte
  <1>2. CASE \E hi, lo \in Data : PushWord(MakeWord(hi, lo))
    <2> PICK hi \in Data, lo \in Data : PushWord(MakeWord(hi, lo))
      BY <1>2
    <2> DEFINE w == MakeWord(hi, lo)
    <2>1. w \in Word
      BY DataAssumption, WordJoins
    <2>2. <<Lo(w), Hi(w)>> \in [1 .. 2 -> Byte]
      BY <2>1, WordSplits
    <2>3. stk' \in StackType
      BY <2>1, Push16Type DEF PushWord
    <2>4. warned' \in BOOLEAN
      BY DEF PushWord, PushComplains
    <2>5. live' \in [1 .. W -> Byte] /\ depth' \in 0 .. W
      <3>1. CASE stk.sp = 0
        BY <3>1, WidthAssumption DEF PushWord
      <3>2. CASE stk.sp # 0
        BY <2>2, <3>2, StoredType DEF PushWord
      <3> QED
        BY <3>1, <3>2
    <2> QED
      BY <2>3, <2>4, <2>5
  <1>3. CASE PopByte
    <2>1. stk' \in StackType
      BY <1>3, PopType DEF PopByte
    <2>2. warned' \in BOOLEAN
      BY <1>3 DEF PopByte, PopComplains
    <2> QED
      BY <1>3, <2>1, <2>2, TakenType DEF PopByte
  <1>4. CASE PopWord
    <2>1. stk' \in StackType
      BY <1>4, PopType DEF PopWord
    <2>2. warned' \in BOOLEAN
      BY <1>4 DEF PopWord, Pop16Complains
    <2> QED
      BY <1>4, <2>1, <2>2, TakenType DEF PopWord
  <1>5. CASE UNCHANGED vars
    BY <1>5 DEF vars
  <1> QED
    BY <1>1, <1>2, <1>3, <1>4, <1>5 DEF Next

(* The stack pointer is always a byte and the page always holds bytes.      *)
THEOREM StackTyped == Spec => []TypeOK
  BY InitType, NextType, PTL DEF Spec

-----------------------------------------------------------------------------
LEMMA NextLive == TypeOK /\ LiveBytesStored /\ [Next]_vars => LiveBytesStored'
  <1> SUFFICES ASSUME TypeOK, LiveBytesStored, [Next]_vars,
                      NEW k \in 1 .. W, k <= depth'
               PROVE  stk'.mem[Up(stk'.sp, k)] = live'[k]
    BY DEF LiveBytesStored
  <1>a. Byte \subseteq Cell
    BY WidthAssumption DEF Byte, Cell
  <1>1. /\ stk.sp \in Byte /\ stk.mem \in [Cell -> Byte]
        /\ depth \in 0 .. W /\ Byte \subseteq Cell
    BY <1>a DEF TypeOK, StackType
  <1>2. CASE \E v \in Data : PushByte(v)
    <2> PICK v \in Data : PushByte(v)
      BY <1>2
    <2>1. /\ stk'.sp = Down(stk.sp, 1)
          /\ stk'.mem = [stk.mem EXCEPT ![stk.sp] = v]
      BY DEF PushByte, Push
    <2>a. /\ live'[k] = IF k <= 1 THEN v ELSE live[k - 1]
          /\ k - 1 <= depth
      BY <1>1, WidthAssumption DEF PushByte, Stored
    <2>2. CASE k = 1
      <3>1. Up(Down(stk.sp, 1), k) = stk.sp
        BY <1>1, <2>2, RingArithmetic
      <3> QED
        BY <1>1, <2>1, <2>a, <2>2, <3>1
    <2>3. CASE k > 1
      <3>1. k - 1 \in 1 .. W /\ k - 1 < W
        BY <2>3, WidthAssumption
      <3>2. Up(Down(stk.sp, 1), k) = Up(stk.sp, k - 1)
        BY <1>1, <2>3, RingArithmetic
      <3>3. Up(stk.sp, k - 1) # stk.sp /\ Up(stk.sp, k - 1) \in Byte
        BY <1>1, <3>1, RingArithmetic
      <3>4. stk'.mem[Up(stk'.sp, k)] = stk.mem[Up(stk.sp, k - 1)]
        BY <1>1, <2>1, <3>2, <3>3
      <3> QED
        BY <2>a, <2>3, <3>1, <3>4 DEF LiveBytesStored
    <2> QED
      BY <2>2, <2>3
  <1>3. CASE \E hi, lo \in Data : PushWord(MakeWord(hi, lo))
    <2> PICK hi \in Data, lo \in Data : PushWord(MakeWord(hi, lo))
      BY <1>3
    <2> DEFINE w == MakeWord(hi, lo)
    <2>1. stk.sp # 0
      BY <1>1 DEF PushWord
    <2>2. stk.sp - 1 \in Byte
      BY <1>1, <2>1, WidthAssumption DEF Byte
    <2>3. /\ stk'.sp = Down(stk.sp, 2)
          /\ stk'.mem = [stk.mem EXCEPT ![stk.sp - 1] = Lo(w), ![stk.sp] = Hi(w)]
      BY <2>1 DEF PushWord, Push16
    <2>a. /\ live'[k] = IF k <= 2 THEN <<Lo(w), Hi(w)>>[k] ELSE live[k - 2]
          /\ k - 2 <= depth
      BY <1>1, <2>1, WidthAssumption DEF PushWord, Stored
    <2>4. CASE k = 1
      <3>1. Up(Down(stk.sp, 2), k) = stk.sp - 1
        BY <1>1, <2>1, <2>4, WidthAssumption DEF Up, Down, Byte
      <3> QED
        BY <1>1, <2>2, <2>3, <2>a, <2>4, <3>1, WidthAssumption DEF Byte
    <2>5. CASE k = 2
      <3>1. Up(Down(stk.sp, 2), k) = stk.sp
        BY <1>1, <2>5, RingArithmetic
      <3> QED
        BY <1>1, <2>3, <2>a, <2>5, <3>1
    <2>6. CASE k > 2
      <3>1. k - 2 \in 1 .. W /\ k - 2 < W
        BY <2>6, WidthAssumption
      <3>2. Up(Down(stk.sp, 2), k) = Up(stk.sp, k - 2)
        BY <1>1, <2>6, RingArithmetic
      <3>3. /\ Up(stk.sp, k - 2) # stk.sp
            /\ Up(stk.sp, k - 2) # stk.sp - 1
            /\ Up(stk.sp, k - 2) \in Byte
        BY <1>1, <2>1, <2>6, <3>1, WidthAssumption DEF Up, Byte
      <3>4. stk'.mem[Up(stk'.sp, k)] = stk.mem[Up(stk.sp, k - 2)]
        BY <1>1, <2>3, <3>2, <3>3
      <3> QED
        BY <2>a, <2>6, <3>1, <3>4 DEF LiveBytesStored
    <2> QED
      BY <2>4, <2>5, <2>6
  <1>4. CASE PopByte
    <2>1. /\ stk'.sp = Up(stk.sp, 1) /\ stk'.mem = stk.mem
          /\ k + 1 <= depth /\ k + 1 \in 1 .. W
          /\ live'[k] = live[k + 1]
      BY <1>1, <1>4, WidthAssumption DEF PopByte, Pop, Taken, TypeOK, StackType
    <2>2. Up(Up(stk.sp, 1), k) = Up(stk.sp, k + 1)
      BY <1>1, <2>1, WidthAssumption, RingArithmetic
    <2> QED
      BY <2>1, <2>2 DEF LiveBytesStored
  <1>5. CASE PopWord
    <2>1. /\ stk'.sp = Up(stk.sp, 2) /\ stk'.mem = stk.mem
          /\ k + 2 <= depth /\ k + 2 \in 1 .. W
          /\ live'[k] = live[k + 2]
      BY <1>1, <1>5, WidthAssumption DEF PopWord, Pop16, Taken, TypeOK, StackType
    <2>2. Up(Up(stk.sp, 2), k) = Up(stk.sp, k + 2)
      BY <1>1, <2>1, WidthAssumption, RingArithmetic
    <2> QED
      BY <2>1, <2>2 DEF LiveBytesStored
  <1>6. CASE UNCHANGED vars
    BY <1>6 DEF vars, LiveBytesStored
  <1> QED
    BY <1>2, <1>3, <1>4, <1>5, <1>6 DEF Next

LEMMA InitLive == Init => LiveBytesStored
  BY WidthAssumption DEF Init, LiveBytesStored

(* Whatever mixture of byte and word operations a client uses and however   *)
(* often SP_ wraps, every byte it still expects is in the page.             *)
THEOREM LiveBytesAlwaysStored == Spec => []LiveBytesStored
  BY InitType, NextType, InitLive, NextLive, PTL DEF Spec

(* What pop_stack and pop_stack16 return next, from that.                   *)
LEMMA LiveGivesPops == TypeOK /\ LiveBytesStored => PopsReturnWhatWasPushed
  <1> SUFFICES ASSUME TypeOK, LiveBytesStored PROVE PopsReturnWhatWasPushed
    OBVIOUS
  <1>1. stk.sp \in Byte /\ depth \in 0 .. W
    BY DEF TypeOK, StackType
  <1>2. ASSUME depth >= 1 PROVE Popped(stk) = live[1]
    BY <1>1, <1>2, WidthAssumption DEF LiveBytesStored, Popped
  <1>3. ASSUME depth >= 2, stk.sp # W - 2
        PROVE  Popped16(stk) = MakeWord(live[2], live[1])
    <2>1. stk.mem[Up(stk.sp, 1)] = live[1] /\ stk.mem[Up(stk.sp, 2)] = live[2]
      BY <1>1, <1>3, WidthAssumption DEF LiveBytesStored
    <2>2. Up(stk.sp, 2) # 0 /\ Up(stk.sp, 2) - 1 = Up(stk.sp, 1)
      BY <1>1, <1>3, WidthAssumption DEF Up, Byte
    <2> QED
      BY <2>1, <2>2 DEF Popped16
  <1> QED
    BY <1>2, <1>3 DEF PopsReturnWhatWasPushed

(* A pop returns the byte, or the word, that was pushed last.               *)
THEOREM PopsAlwaysRight == Spec => []PopsReturnWhatWasPushed
  BY InitType, NextType, InitLive, NextLive, LiveGivesPops, PTL DEF Spec

(* A 16-bit pop that returns anything else has been complained about.       *)
THEOREM WrongWordAlwaysReported == Spec => WrongWordIsReported
  <1>1. TypeOK /\ LiveBytesStored /\ [Next]_vars
          => [PopWord /\ depth >= 2 /\ Popped16(stk) # MakeWord(live[2], live[1])
                => warned']_vars
    <2> SUFFICES ASSUME TypeOK, LiveBytesStored, PopWord, depth >= 2,
                        Popped16(stk) # MakeWord(live[2], live[1])
                 PROVE  warned'
      OBVIOUS
    <2>1. stk.sp = W - 2
      BY LiveGivesPops DEF PopsReturnWhatWasPushed
    <2>2. stk.sp >= W - 2
      BY <2>1, WidthAssumption
    <2>3. Pop16Complains(stk)
      BY <2>2 DEF Pop16Complains
    <2> QED
      BY <2>3 DEF PopWord
  <1> QED
    BY <1>1, InitType, NextType, InitLive, NextLive, PTL DEF Spec, WrongWordIsReported
=============================================================================
