----------------------------- MODULE CpuProofs -----------------------------
(***************************************************************************)
(* For every byte width, every set of cartridges and every client of the   *)
(* CPU: the types, what NMIs save and RTIs restore, that NMIs are          *)
(* transparent to programs that keep their stack, and that those whose     *)
(* code has the certificates of module Flow do.  That the cycle counter    *)
(* stays within 0 .. 7 says that it is never decremented at zero, where    *)
(* the size_t would wrap.                                                  *)
(***************************************************************************)
EXTENDS Flow, StackLemmas

LEMMA PlusType ==
    ASSUME NEW a \in Word, NEW n \in 0 .. 3
    PROVE  Plus(a, n) \in Word
  <1>1. W * W \in Nat /\ W * W >= 16
    BY WidthAssumption
  <1> QED
    BY <1>1 DEF Plus, Word

LEMMA FlagTypes ==
    ASSUME NEW f \in Byte, NEW b \in BOOLEAN
    PROVE  WithNegative(f, b) \in Byte /\ WithBreak(f) \in Byte
  <1>1. Half \in Nat /\ W = 2 * Half
    BY WidthAssumption DEF Half
  <1>2. WithNegative(f, b) \in Byte
    <2>1. CASE f >= Half
      BY <1>1, <2>1 DEF WithNegative, Negative, Byte
    <2>2. CASE f < Half
      BY <1>1, <2>2 DEF WithNegative, Negative, Byte
    <2> QED
      BY <1>1, <2>1, <2>2 DEF Byte
  <1>3. WithBreak(f) \in Byte
    BY WidthAssumption DEF WithBreak, Byte
  <1> QED
    BY <1>2, <1>3

(* What the assumption on cartridges says of the one inserted.              *)
LEMMA OpcodeType ==
    ASSUME CpuTypeOK
    PROVE  /\ Opcode \in Instruction
           /\ Program[cart].nmi \in Word
           /\ Program[cart].irq \in Word
           /\ Opcode.kind = "txs" => Opcode.arg \in Byte
           /\ Opcode.kind = "ctrl" => Opcode.arg \in {0, 1}
  BY ProgramAssumption DEF CpuTypeOK, Opcode, Code

LEMMA InstructionFields ==
    ASSUME NEW op \in Instruction
    PROVE  /\ op.kind \in Kind
           /\ op.size \in 0 .. 3
           /\ op.cycles \in 2 .. 7
           /\ op.arg \in Word
           /\ op.indexed \in BOOLEAN
  BY DEF Instruction

LEMMA InitType == CpuInit => CpuTypeOK
  <1> SUFFICES ASSUME CpuInit PROVE CpuTypeOK
    OBVIOUS
  <1>1. /\ cart \in Cartridge /\ pc \in Word
        /\ Program[cart].irq \in Word
    BY ProgramAssumption DEF CpuInit
  <1>2. W - 3 \in Byte /\ 0 \in Byte /\ 1 \in Byte
    BY WidthAssumption DEF Byte
  <1>3. stk \in StackType
    <2>1. Hi(Program[cart].irq) \in Byte
      BY <1>1, WordSplits
    <2>2. [c \in Cell |-> IF c = Top THEN Hi(Program[cart].irq) ELSE 0] \in [Cell -> Byte]
      BY <1>2, <2>1
    <2> QED
      BY <1>2, <2>2 DEF CpuInit, StackType
  <1>4. p \in Byte /\ todo \in 0 .. 7
    BY <1>2 DEF CpuInit
  <1>5. idx \in BOOLEAN /\ nmiOn \in BOOLEAN /\ vblank \in BOOLEAN
    BY Zenon DEF CpuInit
  <1>6. frames \in Seq(Context)
    BY DEF CpuInit
  <1> QED
    BY <1>1, <1>3, <1>4, <1>5, <1>6 DEF CpuTypeOK

(* Whatever the instruction, executing it leaves registers and stack typed. *)
LEMMA ExecuteType ==
    ASSUME CpuTypeOK, Execute(Opcode)
    PROVE  /\ pc' \in Word /\ p' \in Byte /\ stk' \in StackType
           /\ idx' \in BOOLEAN /\ nmiOn' \in BOOLEAN /\ vblank' \in BOOLEAN
           /\ frames' \in Seq(Context)
  <1> DEFINE op == Opcode
  <1>1. /\ op \in Instruction /\ op.size \in 0 .. 3 /\ op.arg \in Word
        /\ op.kind = "txs" => op.arg \in Byte
        /\ Program[cart].irq \in Word
    BY OpcodeType, InstructionFields
  <1>2. /\ pc \in Word /\ p \in Byte /\ stk \in StackType
        /\ idx \in BOOLEAN /\ nmiOn \in BOOLEAN /\ vblank \in BOOLEAN
        /\ frames \in Seq(Context)
    BY DEF CpuTypeOK
  <1>3. /\ Plus(pc, op.size) \in Word /\ Plus(pc, 1) \in Word /\ Plus(pc, 2) \in Word
    BY <1>1, <1>2, PlusType
  <1>4. \A b \in BOOLEAN : WithNegative(p, b) \in Byte /\ WithBreak(p) \in Byte
    BY <1>2, FlagTypes
  <1>5. /\ Pop(stk) \in StackType /\ Popped(stk) \in Byte
        /\ Pop16(stk) \in StackType /\ Popped16(stk) \in Word
    BY <1>2, PopType
  <1> HIDE DEF op
  <1>a. CASE Plain(op)
    BY <1>2, <1>3, <1>a DEF Plain, Advance
  <1>b. CASE DataOp(op)
    BY <1>2, <1>3, <1>4, <1>b DEF DataOp, Advance
  <1>c. CASE IndexOp(op)
    BY <1>2, <1>3, <1>4, <1>c DEF IndexOp, Advance
  <1>d. CASE ReadStatus(op)
    <2>1. vblank' \in BOOLEAN
      BY <1>2, <1>d DEF ReadStatus
    <2>2. p' \in Byte
      <3>1. (IF HasPpu THEN vblank ELSE TRUE) \in BOOLEAN
        BY <1>2
      <3> QED
        BY <1>4, <1>d, <3>1 DEF ReadStatus
    <2> QED
      BY <1>2, <1>3, <1>d, <2>1, <2>2 DEF ReadStatus, Advance
  <1>e. CASE WriteCtrl(op)
    <2>1. nmiOn' \in BOOLEAN
      BY <1>2, <1>e DEF WriteCtrl
    <2> QED
      BY <1>2, <1>3, <1>e, <2>1 DEF WriteCtrl, Advance
  <1>f. CASE BranchOnPlus(op)
    BY <1>1, <1>2, <1>3, <1>f DEF BranchOnPlus
  <1>g. CASE BranchOnOther(op)
    BY <1>1, <1>2, <1>3, <1>g DEF BranchOnOther
  <1>h. CASE Jump(op)
    BY <1>1, <1>2, <1>h DEF Jump
  <1>i. CASE Call(op)
    <2>1. stk' \in StackType
      BY <1>2, <1>3, <1>i, Push16Type DEF Call
    <2> QED
      BY <1>1, <1>2, <1>i, <2>1 DEF Call
  <1>j. CASE Return(op)
    <2>1. Plus(Popped16(stk), 1) \in Word
      BY <1>5, PlusType
    <2> QED
      BY <1>2, <1>5, <1>j, <2>1 DEF Return
  <1>k. CASE ReturnFromInterrupt(op)
    <2>1. Pop16(Pop(stk)) \in StackType /\ Popped16(Pop(stk)) \in Word
      BY <1>5, PopType
    <2>2. frames' \in Seq(Context)
      <3>1. CASE EndsHandler
        <4>1. Len(frames) \in Nat /\ Len(frames) > 0
          BY <1>2, <3>1 DEF EndsHandler
        <4>2. frames' = SubSeq(frames, 1, Len(frames) - 1)
          BY <1>k, <3>1 DEF ReturnFromInterrupt
        <4> QED
          BY <1>2, <4>1, <4>2
      <3>2. CASE ~EndsHandler
        BY <1>2, <1>k, <3>2 DEF ReturnFromInterrupt
      <3> QED
        BY <3>1, <3>2
    <2> QED
      BY <1>2, <1>5, <1>k, <2>1, <2>2 DEF ReturnFromInterrupt
  <1>l. CASE Break(op)
    <2>1. Push16(stk, Plus(pc, 1)) \in StackType
      BY <1>2, <1>3, Push16Type
    <2>2. stk' \in StackType
      BY <1>2, <1>l, <2>1, PushType DEF Break
    <2>3. stk'.mem[Top] \in Byte
      BY <2>2, WidthAssumption DEF StackType, Top, Cell
    <2>4. Lo(Program[cart].irq) \in Byte
      BY <1>1, WordSplits
    <2>5. pc' \in Word
      BY <1>l, <2>3, <2>4, WordJoins DEF Break
    <2>6. p' \in Byte
      BY <1>4, <1>l DEF Break
    <2> QED
      BY <1>2, <1>l, <2>2, <2>5, <2>6 DEF Break
  <1>m. CASE PushA(op)
    <2>1. {0, Half} \subseteq Byte
      BY WidthAssumption DEF Half, Byte
    <2>2. stk' \in StackType
      BY <1>2, <1>m, <2>1, PushType DEF PushA
    <2> QED
      BY <1>2, <1>3, <1>m, <2>2 DEF PushA, Advance
  <1>n. CASE PushP(op)
    <2>1. stk' \in StackType
      BY <1>2, <1>n, PushType DEF PushP
    <2> QED
      BY <1>2, <1>3, <1>n, <2>1 DEF PushP, Advance
  <1>o. CASE PullA(op)
    <2>1. Negative(Popped(stk)) \in BOOLEAN
      BY DEF Negative
    <2>2. p' \in Byte
      BY <1>4, <1>o, <2>1 DEF PullA
    <2> QED
      BY <1>2, <1>3, <1>5, <1>o, <2>2 DEF PullA, Advance
  <1>p. CASE PullP(op)
    BY <1>2, <1>3, <1>5, <1>p DEF PullP, Advance
  <1>q. CASE TransferXToSP(op)
    <2>1. stk' \in StackType
      BY <1>1, <1>2, <1>q DEF TransferXToSP, StackType
    <2> QED
      BY <1>2, <1>3, <1>q, <2>1 DEF TransferXToSP, Advance
  <1>r. CASE Ignore(op)
    BY <1>2, <1>r DEF Ignore
  <1>s. Execute(op)
    BY DEF op
  <1> QED
    BY <1>a, <1>b, <1>c, <1>d, <1>e, <1>f, <1>g, <1>h, <1>i, <1>j, <1>k, <1>l,
       <1>m, <1>n, <1>o, <1>p, <1>q, <1>r, <1>s DEF Execute

LEMMA CycleType == CpuTypeOK /\ Cycle => CpuTypeOK'
  <1> SUFFICES ASSUME CpuTypeOK, Cycle PROVE CpuTypeOK'
    OBVIOUS
  <1>1. CASE Fetch
    <2>1. Opcode \in Instruction
      BY OpcodeType
    <2>2. CycleCount(Opcode) \in 2 .. 8
      BY <2>1, InstructionFields DEF CycleCount
    <2>3. todo' \in 0 .. 7
      BY <1>1, <2>2 DEF Fetch
    <2> QED
      BY <1>1, <2>3 DEF Fetch, CpuTypeOK
  <1>2. CASE Wait
    <2>1. todo' \in 0 .. 7
      BY <1>2 DEF Wait, CpuTypeOK
    <2> QED
      BY <1>2, <2>1 DEF Wait, CpuTypeOK
  <1>3. CASE Finish
    <2>1. todo' \in 0 .. 7 /\ cart' = cart /\ Execute(Opcode)
      BY <1>3 DEF Finish
    <2> QED
      BY <2>1, ExecuteType DEF CpuTypeOK
  <1> QED
    BY <1>1, <1>2, <1>3 DEF Cycle

LEMMA NmiType == CpuTypeOK /\ EnterHandler /\ vblank' \in BOOLEAN => CpuTypeOK'
  <1> SUFFICES ASSUME CpuTypeOK, EnterHandler, vblank' \in BOOLEAN PROVE CpuTypeOK'
    OBVIOUS
  <1>1. pc' \in Word
    BY OpcodeType DEF EnterHandler
  <1>2. stk' \in StackType
    <2>1. Push16(stk, pc) \in StackType
      BY Push16Type DEF CpuTypeOK
    <2> QED
      BY <2>1, PushType DEF EnterHandler, CpuTypeOK
  <1>3. frames' \in Seq(Context)
    <2>1. [pc |-> pc, p |-> p, sp |-> stk.sp] \in Context
      BY DEF CpuTypeOK, StackType, Context
    <2> QED
      BY <2>1 DEF EnterHandler, CpuTypeOK
  <1>4. todo' \in 0 .. 7
    BY DEF EnterHandler, CpuTypeOK
  <1> QED
    BY <1>1, <1>2, <1>3, <1>4 DEF EnterHandler, CpuTypeOK

LEMMA CpuNextType == CpuTypeOK /\ [CpuNext]_cpuVars => CpuTypeOK'
  <1> SUFFICES ASSUME CpuTypeOK, [CpuNext]_cpuVars PROVE CpuTypeOK'
    OBVIOUS
  <1>1. CASE Cycle
    BY <1>1, CycleType
  <1>2. CASE Throw \/ UNCHANGED cpuVars
    BY <1>2 DEF Throw, cpuVars, CpuTypeOK
  <1>3. CASE SetVBlank
    BY <1>3 DEF SetVBlank, CpuTypeOK
  <1>4. CASE TriggerNmi
    <2>1. vblank' \in BOOLEAN
      BY <1>4 DEF TriggerNmi, CpuTypeOK
    <2> QED
      BY <1>4, <2>1, NmiType DEF TriggerNmi
  <1> QED
    BY <1>1, <1>2, <1>3, <1>4 DEF CpuNext

(* Registers, stack and cycle counter stay in range, with any client.       *)
THEOREM CpuTyped == CpuSpec => []CpuTypeOK
  BY InitType, CpuNextType, PTL DEF CpuSpec

LEMMA EnterHandlerSaves ==
    ASSUME CpuTypeOK, EnterHandler, stk.sp >= 2
    PROVE  /\ Popped(stk') = p
           /\ Popped16(Pop(stk')) = pc
           /\ Pop16(Pop(stk')).sp = stk.sp
           /\ \A c \in Byte : c > stk.sp => stk'.mem[c] = stk.mem[c]
  <1>1. stk' = Push(Push16(stk, pc), p)
    BY DEF EnterHandler
  <1>2. stk \in StackType /\ pc \in Word /\ p \in Byte
    BY DEF CpuTypeOK
  <1> QED
    BY <1>1, <1>2, InterruptRoundTrip

(* Whatever cartridge runs and whenever its NMIs come, an RTI in place of   *)
(* the handler's first instruction would bring the program back.            *)
THEOREM NmiAlwaysSavesContext == CpuSpec => NmiSavesContext
  <1>1. CpuTypeOK /\ [CpuNext]_cpuVars
          => [EnterHandler /\ stk.sp >= 2
                => /\ Popped(stk') = p
                   /\ Popped16(Pop(stk')) = pc
                   /\ Pop16(Pop(stk')).sp = stk.sp
                   /\ \A c \in Byte : c > stk.sp => stk'.mem[c] = stk.mem[c]]_cpuVars
    BY EnterHandlerSaves
  <1> QED
    BY <1>1, CpuTyped, PTL DEF CpuSpec, NmiSavesContext

-----------------------------------------------------------------------------
(* Programs that keep their stack.                                          *)

(* No instruction changes a byte above the stack pointer.                   *)
LEMMA AboveSpKept ==
    ASSUME CpuTypeOK, StackHasRoom, todo = 1, Execute(Opcode)
    PROVE  \A c \in Cell : c > stk.sp => stk'.mem[c] = stk.mem[c]
  <1> DEFINE op == Opcode
  <1>1. /\ stk \in StackType /\ pc \in Word /\ p \in Byte
        /\ Plus(pc, 1) \in Word /\ Plus(pc, 2) \in Word
    BY PlusType DEF CpuTypeOK
  <1>2. /\ op.kind \in {"pha", "php"} => stk.sp >= 1
        /\ op.kind = "jsr" => stk.sp >= 2
        /\ op.kind = "brk" => stk.sp >= 3
    BY DEF StackHasRoom
  <1>3. stk.sp \in Byte
    BY <1>1 DEF StackType
  <1> HIDE DEF op
  <1>a. CASE Call(op)
    BY <1>1, <1>2, <1>a, Push16InPage DEF Call
  <1>b. CASE Break(op)
    <2> DEFINE mid == Push16(stk, Plus(pc, 1))
    <2>1. stk.sp >= 3 /\ stk.sp >= 2
      BY <1>2, <1>3, <1>b DEF Break, Byte
    <2>2. stk' = Push(mid, p)
      BY <1>b DEF Break
    <2>3. mid \in StackType
      BY <1>1, Push16Type
    <2>4. mid.sp = stk.sp - 2 /\ \A c \in Cell : c > stk.sp => mid.mem[c] = stk.mem[c]
      BY <1>1, <2>1, Push16InPage
    <2> HIDE DEF mid
    <2>5. mid.sp >= 1
      BY <1>3, <2>1, <2>4 DEF Byte
    <2>6. \A c \in Cell : c > mid.sp => stk'.mem[c] = mid.mem[c]
      BY <1>1, <2>2, <2>3, <2>5, PushInPage
    <2>7. \A c \in Cell : c > stk.sp => c > mid.sp
      BY <1>3, <2>4, WidthAssumption DEF Byte, Cell
    <2> QED
      BY <2>4, <2>6, <2>7
  <1>c. CASE PushA(op)
    <2>1. {0, Half} \subseteq Byte
      BY WidthAssumption DEF Half, Byte
    <2>2. PICK a \in {0, Half} : stk' = Push(stk, a)
      BY <1>c DEF PushA
    <2> QED
      BY <1>1, <1>2, <1>c, <2>1, <2>2, PushInPage DEF PushA
  <1>d. CASE PushP(op)
    BY <1>1, <1>2, <1>d, PushInPage DEF PushP
  <1>e. CASE stk'.mem = stk.mem
    BY <1>e
  <1>f. ASSUME \/ Return(op) \/ ReturnFromInterrupt(op)
               \/ PullA(op) \/ PullP(op) \/ TransferXToSP(op)
        PROVE  stk'.mem = stk.mem
    BY <1>1, <1>f DEF Return, ReturnFromInterrupt, PullA, PullP, TransferXToSP, Pop, Pop16, StackType
  <1>g. ASSUME \/ Plain(op) \/ DataOp(op) \/ IndexOp(op) \/ ReadStatus(op) \/ WriteCtrl(op)
               \/ BranchOnPlus(op) \/ BranchOnOther(op) \/ Jump(op) \/ Ignore(op)
        PROVE  stk'.mem = stk.mem
    BY <1>g, Zenon DEF Plain, DataOp, IndexOp, ReadStatus, WriteCtrl, BranchOnPlus, BranchOnOther,
                 Jump, Ignore
  <1>h. Execute(op)
    BY DEF op
  <1>i. Call(op) \/ Break(op) \/ PushA(op) \/ PushP(op) \/ stk'.mem = stk.mem
    BY <1>f, <1>g, <1>h DEF Execute
  <1> QED
    BY <1>a, <1>b, <1>c, <1>d, <1>e, <1>i

(* Only an RTI ends a handler.                                              *)
LEMMA FramesStep ==
    ASSUME Execute(Opcode)
    PROVE  \/ frames' = frames /\ ~(Opcode.kind = "rti" /\ EndsHandler)
           \/ /\ Opcode.kind = "rti" /\ EndsHandler
              /\ ReturnFromInterrupt(Opcode)
              /\ frames' = SubSeq(frames, 1, Len(frames) - 1)
  <1>1. CASE ReturnFromInterrupt(Opcode)
    BY <1>1, Zenon DEF ReturnFromInterrupt
  <1>2. CASE ~ReturnFromInterrupt(Opcode)
    <2> DEFINE op == Opcode
    <2>1. Execute(op) /\ ~ReturnFromInterrupt(op)
      BY <1>2
    <2> HIDE DEF op
    <2>2. frames' = frames
      BY <2>1, Zenon DEF Execute, Plain, DataOp, IndexOp, ReadStatus, WriteCtrl, BranchOnPlus,
         BranchOnOther, Jump, Call, Return, Break, PushA, PushP, PullA, PullP, TransferXToSP, Ignore
    <2>3. op.kind # "rti"
      BY <2>1 DEF Execute, Plain, DataOp, IndexOp, ReadStatus, WriteCtrl, BranchOnPlus,
         BranchOnOther, Jump, Call, Return, Break, PushA, PushP, PullA, PullP, TransferXToSP, Ignore
    <2> QED
      BY <2>2, <2>3 DEF op
  <1> QED
    BY <1>1, <1>2

(* The RTI that ends a handler brings back what its NMI saved.              *)
LEMMA ReturnsToContext ==
    ASSUME CpuTypeOK, StackHasRoom, FramesKept, todo = 1,
           ReturnFromInterrupt(Opcode), EndsHandler
    PROVE  /\ frames # <<>> /\ Len(frames) \in 1 .. Len(frames)
           /\ [pc |-> pc', p |-> p', sp |-> stk'.sp] = frames[Len(frames)]
           /\ stk'.mem = stk.mem
  <1> DEFINE f == frames[Len(frames)]
  <1>1. frames \in Seq(Context) /\ frames # <<>> /\ stk.sp = Down(f.sp, 3)
    BY DEF CpuTypeOK, EndsHandler
  <1>2. Len(frames) \in Nat /\ Len(frames) \in 1 .. Len(frames) /\ f \in Context
    BY <1>1
  <1>3. f.sp >= 3 /\ stk.mem[f.sp] = Hi(f.pc) /\ stk.mem[f.sp - 1] = Lo(f.pc)
        /\ stk.mem[f.sp - 2] = f.p
    BY <1>2 DEF FramesKept, Saved
  <1>4. f.sp \in Byte /\ f.pc \in Word /\ f.p \in Byte
        /\ f = [pc |-> f.pc, p |-> f.p, sp |-> f.sp]
    BY <1>2 DEF Context
  <1> HIDE DEF f
  <1>5. stk.sp = f.sp - 3
    BY <1>1, <1>3, <1>4 DEF Down
  <1>6. /\ f.sp \in Int /\ stk.sp \in Int /\ stk.sp + 1 = f.sp - 2
        /\ (stk.sp + 1) + 1 = f.sp - 1 /\ (stk.sp + 1) + 2 = f.sp
        /\ stk.sp + 1 < W /\ (stk.sp + 1) + 2 < W
    BY <1>4, <1>5, WidthAssumption DEF Byte
  <1>7. stk \in StackType
    BY DEF CpuTypeOK
  <1>8. Pop(stk) = [stk EXCEPT !.sp = stk.sp + 1] /\ Popped(stk) = f.p
    BY <1>3, <1>6, <1>7, PopInPage
  <1>9. Pop(stk) \in StackType /\ Pop(stk).sp = stk.sp + 1 /\ Pop(stk).mem = stk.mem
    BY <1>7, <1>8, PopType DEF StackType
  <1>10. /\ Pop16(Pop(stk)) = [Pop(stk) EXCEPT !.sp = f.sp]
         /\ Popped16(Pop(stk)) = MakeWord(stk.mem[f.sp], stk.mem[f.sp - 1])
    BY <1>6, <1>9, PopInPage
  <1>11. Popped16(Pop(stk)) = f.pc
    BY <1>3, <1>4, <1>10, WordSplits
  <1>12. stk'.sp = f.sp /\ stk'.mem = stk.mem
    BY <1>9, <1>10 DEF ReturnFromInterrupt, StackType
  <1>13. pc' = f.pc /\ p' = f.p
    BY <1>8, <1>11 DEF ReturnFromInterrupt
  <1> QED
    BY <1>1, <1>2, <1>4, <1>12, <1>13 DEF f

(* What a handler does leaves every context where it was saved.             *)
LEMMA FramesUndisturbed ==
    ASSUME CpuTypeOK, HandlersBalanced, FramesKept,
           frames' = frames, cart' = cart,
           \A c \in Cell : c > stk.sp => stk'.mem[c] = stk.mem[c]
    PROVE  FramesKept'
  <1>1. frames \in Seq(Context) /\ stk.sp \in Byte
    BY DEF CpuTypeOK, StackType
  <1>2. stk'.mem[Top] = stk.mem[Top]
    BY <1>1, WidthAssumption DEF Top, Cell, Byte
  <1>3. ASSUME NEW n \in 1 .. Len(frames) PROVE Saved(frames[n])'
    <2> DEFINE f == frames[n]
               last == frames[Len(frames)]
    <2>1. Len(frames) \in Nat /\ Len(frames) \in 1 .. Len(frames) /\ frames # <<>>
      BY <1>1, <1>3
    <2>2. f \in Context /\ last \in Context
      BY <1>1, <2>1
    <2>3. f.sp \in Byte /\ last.sp \in Byte
      BY <2>2 DEF Context
    <2>4. last.sp <= f.sp
      BY <2>1, <2>3 DEF FramesKept, Byte
    <2>5. stk.sp + 3 <= last.sp
      BY <2>1 DEF HandlersBalanced
    <2>6. Saved(f)
      BY DEF FramesKept
    <2> HIDE DEF f, last
    <2>7. /\ f.sp \in Cell /\ f.sp - 1 \in Cell /\ f.sp - 2 \in Cell
          /\ f.sp > stk.sp /\ f.sp - 1 > stk.sp /\ f.sp - 2 > stk.sp
      <3>1. f.sp \in Int /\ f.sp < W /\ last.sp \in Int /\ stk.sp \in Int /\ stk.sp >= 0
        BY <1>1, <2>3, WidthAssumption DEF Byte
      <3>2. stk.sp + 3 <= f.sp
        BY <2>4, <2>5, <3>1
      <3> QED
        BY <3>1, <3>2, WidthAssumption DEF Cell
    <2>8. /\ stk'.mem[f.sp] = stk.mem[f.sp]
          /\ stk'.mem[f.sp - 1] = stk.mem[f.sp - 1]
          /\ stk'.mem[f.sp - 2] = stk.mem[f.sp - 2]
      BY <2>7
    <2> QED
      BY <2>6, <2>8 DEF f, Saved
  <1> QED
    BY <1>2, <1>3 DEF FramesKept

LEMMA FramesInit == CpuInit => FramesKept
  <1> SUFFICES ASSUME CpuInit PROVE FramesKept
    OBVIOUS
  <1>1. frames = <<>> /\ 1 .. Len(frames) = {}
    BY DEF CpuInit
  <1>2. stk.mem[Top] = Hi(Program[cart].irq)
    BY WidthAssumption DEF CpuInit, Top, Cell
  <1> QED
    BY <1>1, <1>2 DEF FramesKept

LEMMA FrontOfSeq ==
    ASSUME NEW S, NEW s \in Seq(S), s # <<>>
    PROVE  /\ Len(s) \in Nat
           /\ Len(SubSeq(s, 1, Len(s) - 1)) = Len(s) - 1
           /\ \A n \in 1 .. Len(s) - 1 : SubSeq(s, 1, Len(s) - 1)[n] = s[n]
  <1> DEFINE l == Len(s)
             r == SubSeq(s, 1, l - 1)
  <1>1. l \in Nat /\ l # 0
    BY EmptySeq
  <1>2. \A n \in 1 .. l - 1 : s[n] \in S
    BY <1>1, ElementOfSeq
  <1> HIDE DEF l
  <1>3. 1 \in Int /\ l - 1 \in Int /\ (l - 1) - 1 + 1 = l - 1
    BY <1>1
  <1>4. /\ Len(r) = IF 1 <= l - 1 THEN (l - 1) - 1 + 1 ELSE 0
        /\ \A n \in 1 .. (l - 1) - 1 + 1 : r[n] = s[1 + n - 1]
    BY <1>2, <1>3, SubSeqProperties
  <1> HIDE DEF r
  <1>5. Len(r) = l - 1
    BY <1>1, <1>4
  <1>6. ASSUME NEW n \in 1 .. l - 1 PROVE r[n] = s[n]
    <2>1. 1 + n - 1 = n
      BY <1>1
    <2> QED
      BY <1>3, <1>4, <2>1
  <1> QED
    BY <1>1, <1>5, <1>6 DEF r, l

(* The end of a handler takes the innermost context off the list.           *)
LEMMA FramesEnd ==
    ASSUME CpuTypeOK, StackHasRoom, FramesKept, todo = 1, cart' = cart,
           ReturnFromInterrupt(Opcode), EndsHandler,
           frames' = SubSeq(frames, 1, Len(frames) - 1)
    PROVE  FramesKept'
  <1>1. frames \in Seq(Context) /\ frames # <<>> /\ stk'.mem = stk.mem
    BY ReturnsToContext DEF CpuTypeOK
  <1>2. /\ Len(frames) \in Nat /\ Len(frames') = Len(frames) - 1
        /\ \A n \in 1 .. Len(frames') : frames'[n] = frames[n]
    BY <1>1, FrontOfSeq
  <1>3. ASSUME NEW n \in 1 .. Len(frames') PROVE n \in 1 .. Len(frames)
    BY <1>2
  <1>4. ASSUME NEW n \in 1 .. Len(frames') PROVE Saved(frames[n])'
    <2>1. Saved(frames[n]) /\ frames'[n] = frames[n]
      BY <1>2, <1>3 DEF FramesKept
    <2> QED
      BY <1>1, <2>1 DEF Saved
  <1>5. ASSUME NEW m \in 1 .. Len(frames'), NEW n \in 1 .. Len(frames'), m < n
        PROVE  frames'[n].sp <= frames'[m].sp
    BY <1>2, <1>3, <1>5 DEF FramesKept
  <1>6. stk'.mem[Top] = Hi(Program[cart'].irq)
    BY <1>1 DEF FramesKept
  <1> QED
    BY <1>4, <1>5, <1>6 DEF FramesKept

(* An NMI puts one below those that are there.                              *)
LEMMA FramesBegin ==
    ASSUME CpuTypeOK, HandlersBalanced, HandlersBalanced', FramesKept, EnterHandler
    PROVE  /\ stk.sp >= 3
           /\ \A c \in Cell : c > stk.sp => stk'.mem[c] = stk.mem[c]
           /\ FramesKept'
  <1> DEFINE f == [pc |-> pc, p |-> p, sp |-> stk.sp]
             mid == Push16(stk, pc)
  <1>1. /\ frames \in Seq(Context) /\ stk \in StackType /\ pc \in Word /\ p \in Byte
        /\ stk.sp \in Byte
    BY DEF CpuTypeOK, StackType
  <1>2. frames' = Append(frames, f) /\ stk' = Push(mid, p) /\ cart' = cart
    BY DEF EnterHandler
  <1>3. f \in Context
    BY <1>1 DEF Context
  <1>4. mid \in StackType /\ mid.sp = Down(stk.sp, 2) /\ stk'.sp = Down(mid.sp, 1)
    BY <1>1, <1>2, Push16Type DEF Push16, Push
  <1> HIDE DEF mid
  <1>5. Len(frames) \in Nat /\ Len(frames') = Len(frames) + 1
    BY <1>1, <1>2, <1>3
  <1>6. frames'[Len(frames')] = f /\ \A n \in 1 .. Len(frames) : frames'[n] = frames[n]
    BY <1>1, <1>2, <1>3
  <1> HIDE DEF f
  <1>7. f.sp = stk.sp /\ f.pc = pc /\ f.p = p
    BY DEF f
  <1>8. stk.sp >= 3
    <2>1. frames' # <<>>
      BY <1>5
    <2>2. stk'.sp + 3 <= stk.sp
      BY <1>6, <1>7, <2>1 DEF HandlersBalanced
    <2> QED
      BY <1>1, <1>4, <2>2, WidthAssumption DEF Down, Byte
  <1>9. /\ mid.sp = stk.sp - 2
        /\ mid.mem[stk.sp] = Hi(pc) /\ mid.mem[stk.sp - 1] = Lo(pc)
        /\ \A c \in Cell : c > stk.sp => mid.mem[c] = stk.mem[c]
    <2>1. stk.sp >= 2
      BY <1>1, <1>8 DEF Byte
    <2> QED
      BY <1>1, <2>1, Push16InPage DEF mid
  <1>10. /\ stk'.mem[mid.sp] = p
         /\ \A c \in Cell : c > mid.sp => stk'.mem[c] = mid.mem[c]
    <2>1. mid.sp >= 1
      BY <1>1, <1>8, <1>9 DEF Byte
    <2> QED
      BY <1>1, <1>2, <1>4, <2>1, PushInPage
  <1>11. stk.sp \in Cell /\ stk.sp - 1 \in Cell /\ stk.sp > mid.sp /\ stk.sp - 1 > mid.sp
    BY <1>1, <1>8, <1>9, WidthAssumption DEF Byte, Cell
  <1>12. /\ stk'.mem[stk.sp] = Hi(pc)
         /\ stk'.mem[stk.sp - 1] = Lo(pc)
         /\ stk'.mem[stk.sp - 2] = p
    BY <1>9, <1>10, <1>11
  <1>13. \A c \in Cell : c > stk.sp => c > mid.sp /\ stk'.mem[c] = stk.mem[c]
    <2>1. \A c \in Cell : c > stk.sp => c > mid.sp
      BY <1>1, <1>9, WidthAssumption DEF Byte, Cell
    <2> QED
      BY <1>9, <1>10, <2>1
  <1>14. ASSUME NEW n \in 1 .. Len(frames)
         PROVE  frames[n].sp \in Byte /\ frames[n].sp >= stk.sp + 3 /\ Saved(frames[n])
    <2>1. Len(frames) \in 1 .. Len(frames) /\ frames # <<>>
      BY <1>1, <1>5, <1>14
    <2>2. frames[n] \in Context /\ frames[Len(frames)] \in Context
      BY <1>1, <2>1
    <2>3. frames[n].sp \in Byte /\ frames[Len(frames)].sp \in Byte
      BY <2>2 DEF Context
    <2>4. n < Len(frames) => frames[Len(frames)].sp <= frames[n].sp
      BY <2>1 DEF FramesKept
    <2>5. stk.sp + 3 <= frames[Len(frames)].sp
      BY <2>1 DEF HandlersBalanced
    <2>6. frames[n].sp >= stk.sp + 3
      BY <1>1, <1>5, <2>3, <2>4, <2>5 DEF Byte
    <2> QED
      BY <2>3, <2>6 DEF FramesKept
  <1>15. ASSUME NEW n \in 1 .. Len(frames') PROVE Saved(frames[n])'
    <2>1. CASE n = Len(frames')
      <3>1. frames'[n] = f
        BY <1>6, <2>1
      <3> QED
        BY <1>7, <1>8, <1>12, <3>1 DEF Saved
    <2>2. CASE n # Len(frames')
      <3> DEFINE g == frames[n]
      <3>1. n \in 1 .. Len(frames)
        BY <1>5, <2>2
      <3>2. frames'[n] = g
        BY <1>6, <3>1
      <3>3. g.sp \in Byte /\ g.sp >= stk.sp + 3 /\ Saved(g)
        BY <1>14, <3>1
      <3> HIDE DEF g
      <3>4. /\ g.sp \in Cell /\ g.sp > stk.sp
            /\ g.sp - 1 \in Cell /\ g.sp - 1 > stk.sp
            /\ g.sp - 2 \in Cell /\ g.sp - 2 > stk.sp
        BY <1>1, <3>3, WidthAssumption DEF Byte, Cell
      <3>5. /\ stk'.mem[g.sp] = stk.mem[g.sp]
            /\ stk'.mem[g.sp - 1] = stk.mem[g.sp - 1]
            /\ stk'.mem[g.sp - 2] = stk.mem[g.sp - 2]
        BY <1>13, <3>4
      <3> QED
        BY <3>2, <3>3, <3>5 DEF Saved
    <2> QED
      BY <2>1, <2>2
  <1>16. ASSUME NEW m \in 1 .. Len(frames'), NEW n \in 1 .. Len(frames'), m < n
         PROVE  frames'[n].sp <= frames'[m].sp
    <2>1. m \in 1 .. Len(frames) /\ frames'[m] = frames[m]
      BY <1>5, <1>6, <1>16
    <2>2. CASE n = Len(frames')
      BY <1>1, <1>6, <1>7, <1>14, <2>1, <2>2 DEF Byte
    <2>3. CASE n # Len(frames')
      <3>1. n \in 1 .. Len(frames) /\ frames'[n] = frames[n]
        BY <1>5, <1>6, <2>3
      <3> QED
        BY <1>16, <2>1, <3>1 DEF FramesKept
    <2> QED
      BY <2>2, <2>3
  <1>17. stk'.mem[Top] = Hi(Program[cart'].irq)
    <2>1. Top \in Cell /\ Top > stk.sp
      BY <1>1, WidthAssumption DEF Top, Cell, Byte
    <2> QED
      BY <1>2, <1>13, <2>1 DEF FramesKept
  <1> QED
    <2>1. \A n \in 1 .. Len(frames') : Saved(frames[n])'
      BY <1>15
    <2>2. \A m, n \in 1 .. Len(frames') : m < n => frames'[n].sp <= frames'[m].sp
      BY <1>16
    <2>3. FramesKept'
      BY <1>17, <2>1, <2>2 DEF FramesKept
    <2> QED
      BY <1>8, <1>13, <2>3

(* What any client of the CPU does to a program: execute its next           *)
(* instruction, interrupt it, or leave its registers and its stack alone.   *)
ProgramStep == Finish \/ EnterHandler \/ UNCHANGED <<cart, pc, p, stk, frames>>

LEMMA CpuStepIsProgramStep == [CpuNext]_cpuVars => ProgramStep
  BY Zenon DEF ProgramStep, CpuNext, Cycle, Fetch, Wait, Throw, SetVBlank, TriggerNmi, cpuVars

LEMMA FramesNext ==
    ASSUME CpuTypeOK, StackKept, StackKept', FramesKept, ProgramStep
    PROVE  FramesKept'
  <1>1. CASE UNCHANGED <<cart, pc, p, stk, frames>>
    BY <1>1, FramesUndisturbed DEF StackKept
  <1>2. CASE Finish
    <2>1. todo = 1 /\ Execute(Opcode) /\ cart' = cart
      BY <1>2 DEF Finish
    <2>2. CASE frames' = frames
      BY <2>1, <2>2, AboveSpKept, FramesUndisturbed DEF StackKept
    <2>3. CASE frames' # frames
      BY <2>1, <2>3, FramesStep, FramesEnd DEF StackKept
    <2> QED
      BY <2>2, <2>3
  <1>3. CASE EnterHandler
    BY <1>3, FramesBegin DEF StackKept
  <1> QED
    BY <1>1, <1>2, <1>3 DEF ProgramStep

(* The contexts of a program that keeps its stack lie on it whole.          *)
THEOREM FramesAlwaysKept == CpuSpec /\ []StackKept => []FramesKept
  <1>1. CpuTypeOK /\ StackKept /\ StackKept' /\ FramesKept /\ [CpuNext]_cpuVars => FramesKept'
    BY CpuStepIsProgramStep, FramesNext
  <1> QED
    BY <1>1, FramesInit, CpuTyped, PTL DEF CpuSpec

LEMMA FinishReturns ==
    ASSUME CpuTypeOK, StackKept, FramesKept, todo = 1, Opcode.kind = "rti", EndsHandler, Finish
    PROVE  [pc |-> pc', p |-> p', sp |-> stk'.sp] = frames[Len(frames)]
  <1>1. ReturnFromInterrupt(Opcode)
    BY FramesStep DEF Finish
  <1> QED
    BY <1>1, ReturnsToContext DEF StackKept

(* A handler that keeps its stack returns to the instruction, the flags and *)
(* the stack pointer its NMI found, whatever it pushed, called or was       *)
(* interrupted by meanwhile.                                                *)
THEOREM HandlersReturn == CpuSpec /\ []StackKept => HandlerReturnsToContext
  <1>1. CpuTypeOK /\ StackKept /\ FramesKept
          => [todo = 1 /\ Opcode.kind = "rti" /\ EndsHandler /\ Finish
                => [pc |-> pc', p |-> p', sp |-> stk'.sp] = frames[Len(frames)]]_cpuVars
    BY FinishReturns
  <1> QED
    BY <1>1, CpuTyped, FramesAlwaysKept, PTL DEF CpuSpec, HandlerReturnsToContext

-----------------------------------------------------------------------------
(* The program without its interrupts: the arithmetic of Thread, which      *)
(* takes remainders, is that of the CPU, which wraps.                       *)
LEMMA RemainderOnce ==
    ASSUME NEW m \in Nat, m > 0, NEW x \in Nat, x < m + m
    PROVE  x % m = IF x < m THEN x ELSE x - m
  <1>1. CASE x < m
    BY <1>1
  <1>2. CASE x >= m
    BY <1>2, SMTT(30)
  <1> QED
    BY <1>1, <1>2

LEMMA PlusIsRemainder ==
    ASSUME NEW a \in Word, NEW n \in 0 .. 3
    PROVE  (a + n) % (W * W) = Plus(a, n)
  <1> DEFINE m == W * W
  <1>1. m \in Nat /\ m >= 16
    BY WidthAssumption
  <1>2. a \in 0 .. (m - 1)
    BY DEF Word
  <1>3. Plus(a, n) = IF a + n < m THEN a + n ELSE (a + n) - m
    BY <1>1, <1>2 DEF Plus
  <1> HIDE DEF m
  <1>4. a + n \in Nat /\ a + n < m + m /\ m > 0
    BY <1>1, <1>2
  <1>5. (a + n) % m = IF a + n < m THEN a + n ELSE (a + n) - m
    BY <1>1, <1>4, RemainderOnce
  <1> QED
    BY <1>3, <1>5 DEF m

LEMMA FlagsAreRemainders ==
    ASSUME NEW f \in Byte, NEW b \in BOOLEAN
    PROVE  /\ WithNegative(f, b) = (IF b THEN Half ELSE 0) + (f % Half)
           /\ WithBreak(f) = 2 * (f \div 2) + 1
  <1>1. Half \in Nat /\ Half > 0 /\ W = Half + Half
    BY WidthAssumption DEF Half
  <1>2. f \in Nat /\ f < Half + Half
    BY <1>1 DEF Byte
  <1>3. f % Half = IF f < Half THEN f ELSE f - Half
    BY <1>1, <1>2, RemainderOnce
  <1>4. WithNegative(f, b) = (IF b THEN Half ELSE 0) + (f % Half)
    BY <1>1, <1>2, <1>3 DEF WithNegative, Negative
  <1>5. WithBreak(f) = 2 * (f \div 2) + 1
    BY <1>2 DEF WithBreak
  <1> QED
    BY <1>4, <1>5

(* While no handler runs, executing an instruction is one step of Thread.   *)
LEMMA InstructionIsThreadStep ==
    ASSUME CpuTypeOK, StackHasRoom, FramesKept, todo = 1, cart' = cart,
           Execute(Opcode), frames = <<>>, frames' = <<>>
    PROVE  [T!Next(Program[cart].irq)]_(T!tvars)
  <1> DEFINE op == Opcode
             irq == Program[cart].irq
             a == Above(stk.mem, stk.sp)
  <1>1. /\ op \in Instruction /\ op.size \in 0 .. 3 /\ op.arg \in Word
        /\ op.kind = "txs" => op.arg \in Byte
        /\ irq \in Word
    BY OpcodeType, InstructionFields
  <1>2. /\ op.kind \in {"pha", "php"} => stk.sp >= 1
        /\ op.kind = "jsr" => stk.sp >= 2
        /\ op.kind = "brk" => stk.sp >= 3
        /\ op.kind \in {"pla", "plp"} => stk.sp + 1 < W
        /\ op.kind = "rts" => stk.sp + 2 < W
        /\ op.kind = "rti" => stk.sp + 3 < W
    BY DEF StackHasRoom
  <1>3. op.kind \in {"pha", "php", "pla", "plp", "txs"} => op.size = 1
    BY ProgramAssumption DEF CpuTypeOK, Opcode, Code
  <1>4. /\ stk \in StackType /\ stk.sp \in Byte /\ stk.mem \in [Cell -> Byte]
        /\ pc \in Word /\ p \in Byte /\ vblank \in BOOLEAN
    BY DEF CpuTypeOK, StackType
  <1>5. /\ Base.pc = pc /\ Base.p = p /\ Base.sp = stk.sp
        /\ (Base.pc)' = pc' /\ (Base.p)' = p' /\ (Base.sp)' = stk'.sp
        /\ Code' = Code /\ Code[pc] = op
    BY DEF Base, Code, Opcode
  <1>6. \A n \in 0 .. 3 : T!Following(n) = Plus(pc, n)
    BY <1>4, <1>5, PlusIsRemainder DEF T!Following
  <1>7. /\ T!Following(op.size) = Plus(pc, op.size)
        /\ T!Following(1) = Plus(pc, 1) /\ T!Following(2) = Plus(pc, 2)
    BY <1>1, <1>6
  <1>8. T!Half = Half /\ T!Op = op
    BY <1>5 DEF T!Half, Half, T!Op
  <1>9. \A b \in BOOLEAN : WithNegative(p, b) = (IF b THEN Half ELSE 0) + (p % Half)
    BY <1>4, FlagsAreRemainders
  <1>10. \A b \in BOOLEAN : p' = WithNegative(p, b) => T!SetsN(b)
    BY <1>5, <1>8, <1>9 DEF T!SetsN
  <1>11. EndsHandler = FALSE
    BY DEF EndsHandler
  <1>12. a' = Above(stk'.mem, stk'.sp)
    OBVIOUS
  <1>13. /\ T!Drop(1) = SubSeq(a, 1 + 1, Len(a))
         /\ T!Drop(2) = SubSeq(a, 2 + 1, Len(a))
         /\ T!Drop(3) = SubSeq(a, 3 + 1, Len(a))
    BY <1>5 DEF T!Drop
  <1>14. /\ T!WordAt(1) = MakeWord(a[2], a[1]) /\ T!WordAt(2) = MakeWord(a[3], a[2])
    BY <1>5 DEF T!WordAt, MakeWord
  <1>15. \A w : T!Bytes(w) = <<Lo(w), Hi(w)>>
    BY DEF T!Bytes, Lo, Hi
  <1>16. T!tvars = <<Code, pc, p, a>> /\ (T!tvars)' = <<Code, pc', p', a'>>
    BY <1>5 DEF T!tvars
  <1> HIDE DEF op, irq
  <1> HIDE DEF a
  <1>17. T!Straight \/ T!Computes \/ T!Jumps \/ T!Calls \/ T!Returns \/ T!Breaks(irq)
          \/ T!EndsBreak \/ T!Pushes \/ T!Pulls \/ T!Moves => T!Next(irq)
    BY <1>5 DEF T!Next
  <1>18. stk' = stk => a' = a
    BY <1>12 DEF a
  <1>a. CASE Plain(op) \/ WriteCtrl(op)
    <2>1. T!Straight
      BY <1>5, <1>7, <1>8, <1>16, <1>18, <1>a DEF Plain, WriteCtrl, Advance, T!Straight, T!tvars
    <2> QED
      BY <1>17, <2>1 DEF irq
  <1>b. CASE DataOp(op) \/ IndexOp(op) \/ ReadStatus(op)
    <2>1. \E b \in BOOLEAN : p' = WithNegative(p, b)
      BY <1>4, <1>b DEF DataOp, IndexOp, ReadStatus
    <2>2. \E b \in BOOLEAN : T!SetsN(b)
      BY <1>10, <2>1
    <2>3. T!Computes
      BY <1>5, <1>7, <1>8, <1>16, <1>18, <1>b, <2>2
         DEF DataOp, IndexOp, ReadStatus, Advance, T!Computes, T!tvars
    <2> QED
      BY <1>17, <2>3 DEF irq
  <1>c. CASE BranchOnPlus(op) \/ BranchOnOther(op) \/ Jump(op)
    <2>1. T!Jumps
      BY <1>5, <1>7, <1>8, <1>16, <1>18, <1>c
         DEF BranchOnPlus, BranchOnOther, Jump, Negative, T!Jumps, T!tvars
    <2> QED
      BY <1>17, <2>1 DEF irq
  <1>d. CASE Call(op)
    <2>1. stk.sp >= 2 /\ Plus(pc, 2) \in Word
      BY <1>2, <1>4, <1>d, PlusType DEF Call
    <2>2. a' = <<Lo(Plus(pc, 2)), Hi(Plus(pc, 2))>> \o a
      BY <1>4, <1>12, <1>d, <2>1, Push16Sequence DEF Call, a
    <2>3. T!Calls
      BY <1>5, <1>7, <1>8, <1>15, <1>16, <1>d, <2>2 DEF Call, T!Calls, T!tvars
    <2> QED
      BY <1>17, <2>3 DEF irq
  <1>e. CASE Return(op)
    <2>1. stk.sp + 2 < W
      BY <1>2, <1>e DEF Return
    <2>2. /\ Popped16(stk) = MakeWord(a[2], a[1])
          /\ a' = SubSeq(a, 3, Len(a))
      BY <1>4, <1>12, <1>e, <2>1, PopSequence DEF Return, a
    <2>3. pc' = (MakeWord(a[2], a[1]) + 1) % (W * W)
      BY <1>4, <1>e, <2>2, PopType, PlusIsRemainder DEF Return
    <2>4. T!Drop(2) = SubSeq(a, 3, Len(a))
      BY <1>13
    <2>5. T!Returns
      BY <1>5, <1>8, <1>14, <1>16, <1>e, <2>2, <2>3, <2>4 DEF Return, T!Returns, T!tvars
    <2> QED
      BY <1>17, <2>5 DEF irq
  <1>f. CASE ReturnFromInterrupt(op)
    <2>1. stk.sp + 3 < W /\ stk.sp \in Int /\ W \in Int /\ stk.sp >= 0
      BY <1>2, <1>4, <1>f, WidthAssumption DEF ReturnFromInterrupt, Byte
    <2>2. stk.sp + 1 < W /\ (stk.sp + 1) + 2 < W /\ stk.sp + 2 < W
      BY <2>1
    <2>3. Pop(stk) = [stk EXCEPT !.sp = stk.sp + 1] /\ Popped(stk) = stk.mem[stk.sp + 1]
      BY <1>4, <2>2, PopInPage
    <2>4. Pop(stk) \in StackType /\ Pop(stk).sp = stk.sp + 1 /\ Pop(stk).mem = stk.mem
      BY <1>4, <2>3, PopType DEF StackType
    <2>5. /\ Pop16(Pop(stk)) = [Pop(stk) EXCEPT !.sp = (stk.sp + 1) + 2]
          /\ Popped16(Pop(stk)) = MakeWord(stk.mem[(stk.sp + 1) + 2], stk.mem[(stk.sp + 1) + 1])
      BY <2>2, <2>4, PopInPage
    <2>6. (stk.sp + 1) + 2 = stk.sp + 3 /\ (stk.sp + 1) + 1 = stk.sp + 2
      BY <2>1
    <2>7. /\ a[1] = stk.mem[stk.sp + 1] /\ a[2] = stk.mem[stk.sp + 2]
          /\ a[3] = stk.mem[stk.sp + 3]
      <3>1. 1 \in 1 .. (W - 1 - stk.sp) /\ 2 \in 1 .. (W - 1 - stk.sp)
            /\ 3 \in 1 .. (W - 1 - stk.sp)
        BY <2>1
      <3> QED
        BY <1>4, <3>1, AboveType DEF a
    <2>8. stk'.sp = stk.sp + 3 /\ stk'.mem = stk.mem
      BY <1>f, <2>4, <2>5, <2>6 DEF ReturnFromInterrupt, StackType
    <2>9. a' = SubSeq(a, 3 + 1, Len(a))
      BY <1>4, <1>12, <2>1, <2>8, AboveDrops DEF a
    <2>10. T!Drop(3) = SubSeq(a, 3 + 1, Len(a))
      BY <1>13
    <2>11. pc' = MakeWord(a[3], a[2]) /\ p' = a[1]
      BY <1>f, <2>3, <2>5, <2>6, <2>7 DEF ReturnFromInterrupt
    <2>12. T!EndsBreak
      BY <1>5, <1>8, <1>14, <1>16, <1>f, <2>9, <2>10, <2>11
         DEF ReturnFromInterrupt, T!EndsBreak, T!tvars
    <2> QED
      BY <1>17, <2>12 DEF irq
  <1>g. CASE Break(op)
    <2> DEFINE w == Plus(pc, 1)
               mid == Push16(stk, w)
    <2>1. stk.sp >= 3 /\ stk.sp >= 2 /\ w \in Word
      BY <1>2, <1>4, <1>g, PlusType DEF Break, Byte
    <2>2. mid \in StackType /\ mid.sp = stk.sp - 2
      BY <1>4, <2>1, Push16Type, Push16InPage
    <2>3. mid.sp >= 1
      BY <1>4, <2>1, <2>2 DEF Byte
    <2>4. Above(mid.mem, mid.sp) = <<Lo(w), Hi(w)>> \o a
      BY <1>4, <2>1, Push16Sequence DEF a
    <2>5. stk' = Push(mid, p)
      BY <1>g DEF Break
    <2> HIDE DEF mid
    <2>6. a' = <<p>> \o (<<Lo(w), Hi(w)>> \o a)
      BY <1>4, <1>12, <2>2, <2>3, <2>4, <2>5, PushSequence
    <2>7. a' = (<<p>> \o <<Lo(w), Hi(w)>>) \o a
      <3>1. <<p>> \in Seq(Byte) /\ <<Lo(w), Hi(w)>> \in Seq(Byte)
        BY <1>4, <2>1, WordSplits
      <3>2. a \in Seq(Byte)
        BY <1>4, AboveType DEF a
      <3> QED
        BY <2>6, <3>1, <3>2, ConcatAssociative
    <2>8. pc' = irq
      <3>1. Top \in Cell /\ Top > stk.sp
        BY <1>4, WidthAssumption DEF Top, Cell, Byte
      <3>2. stk'.mem[Top] = Hi(irq)
        BY <3>1, AboveSpKept DEF FramesKept, irq
      <3> QED
        BY <1>1, <1>g, <3>2, WordSplits DEF Break, irq
    <2>9. p' = 2 * (p \div 2) + 1
      BY <1>4, <1>g, FlagsAreRemainders DEF Break
    <2>10. T!Breaks(irq)
      BY <1>5, <1>7, <1>8, <1>15, <1>16, <1>g, <2>7, <2>8, <2>9 DEF Break, T!Breaks, T!tvars
    <2> QED
      BY <1>17, <2>10 DEF irq
  <1>h. CASE PushA(op) \/ PushP(op)
    <2>1. stk.sp >= 1 /\ op.size = 1
      BY <1>2, <1>3, <1>h DEF PushA, PushP
    <2>2. {0, Half} \subseteq Byte
      BY WidthAssumption DEF Half, Byte
    <2>3. \A v \in Byte : stk' = Push(stk, v) => a' = <<v>> \o a
      BY <1>4, <1>12, <2>1, PushSequence DEF a
    <2>4. T!Pushes
      <3>1. pc' = T!Following(1) /\ p' = p
        BY <1>7, <1>h, <2>1 DEF PushA, PushP, Advance
      <3>2. CASE PushA(op)
        <4>1. \E v \in {0, Half} : a' = <<v>> \o a
          BY <2>2, <2>3, <3>2 DEF PushA
        <4> QED
          BY <1>5, <1>8, <1>16, <3>1, <3>2, <4>1 DEF PushA, T!Pushes, T!tvars
      <3>3. CASE PushP(op)
        <4>1. a' = <<p>> \o a
          BY <1>4, <2>3, <3>3 DEF PushP
        <4> QED
          BY <1>5, <1>8, <1>16, <3>1, <3>3, <4>1 DEF PushP, T!Pushes, T!tvars
      <3> QED
        BY <1>h, <3>2, <3>3
    <2> QED
      BY <1>17, <2>4 DEF irq
  <1>i. CASE PullA(op) \/ PullP(op)
    <2>1. stk.sp + 1 < W /\ op.size = 1
      BY <1>2, <1>3, <1>i DEF PullA, PullP
    <2>2. Popped(stk) = a[1] /\ a' = SubSeq(a, 2, Len(a))
      <3>1. stk' = Pop(stk)
        BY <1>i DEF PullA, PullP
      <3>2. Popped(stk) = a[1] /\ Above(Pop(stk).mem, Pop(stk).sp) = SubSeq(a, 2, Len(a))
        BY <1>4, <2>1, PopSequence DEF a
      <3> QED
        BY <1>12, <3>1, <3>2
    <2>3. T!Drop(1) = SubSeq(a, 2, Len(a))
      BY <1>13
    <2>4. PullA(op) => T!SetsN(a[1] >= Half)
      <3>1. (a[1] >= Half) \in BOOLEAN
        OBVIOUS
      <3> QED
        BY <1>10, <2>2, <3>1 DEF PullA, Negative
    <2>5. T!Pulls
      BY <1>5, <1>7, <1>8, <1>16, <1>i, <2>1, <2>2, <2>3, <2>4
         DEF PullA, PullP, Advance, T!Pulls, T!tvars
    <2> QED
      BY <1>17, <2>5 DEF irq
  <1>j. CASE TransferXToSP(op)
    <2>1. op.arg \in Byte /\ op.size = 1 /\ stk'.sp = op.arg /\ stk'.mem = stk.mem
      BY <1>1, <1>3, <1>4, <1>j DEF TransferXToSP, StackType
    <2>2. Len(a') = W - 1 - op.arg
      BY <1>4, <1>12, <2>1, AboveType
    <2>3. T!Moves
      BY <1>5, <1>7, <1>8, <1>16, <1>j, <2>1, <2>2
         DEF TransferXToSP, Advance, T!Moves, T!tvars
    <2> QED
      BY <1>17, <2>3 DEF irq
  <1>k. CASE Ignore(op)
    BY <1>5, <1>16, <1>18, <1>k DEF Ignore
  <1>l. Execute(op)
    BY DEF op
  <1> QED
    BY <1>a, <1>b, <1>c, <1>d, <1>e, <1>f, <1>g, <1>h, <1>i, <1>j, <1>k, <1>l DEF Execute

(* The rest, taking an interrupt, what its handler does and its return, is  *)
(* not seen.                                                                *)
LEMMA HandlerIsNotSeen ==
    ASSUME CpuTypeOK, StackKept, FramesKept, todo = 1, cart' = cart,
           Execute(Opcode), frames # <<>>
    PROVE  UNCHANGED T!tvars
  <1> DEFINE f == frames[1]
             last == frames[Len(frames)]
  <1>1. frames \in Seq(Context) /\ Len(frames) \in Nat /\ Len(frames) >= 1
    BY DEF CpuTypeOK
  <1>2. f \in Context /\ last \in Context /\ stk.sp \in Byte
    BY <1>1 DEF CpuTypeOK, StackType
  <1>3. f.sp \in Byte /\ last.sp \in Byte
    BY <1>2 DEF Context
  <1>4. last.sp <= f.sp
    BY <1>1, <1>3 DEF FramesKept, Byte
  <1>5. stk.sp + 3 <= last.sp
    BY DEF StackKept, HandlersBalanced
  <1>6. Base = f
    BY DEF Base
  <1>7. Base' = f
    <2>1. CASE frames' = frames
      BY <2>1 DEF Base
    <2>2. CASE frames' # frames
      <3>1. /\ ReturnFromInterrupt(Opcode) /\ EndsHandler
            /\ frames' = SubSeq(frames, 1, Len(frames) - 1)
        BY <2>2, FramesStep
      <3>2. [pc |-> pc', p |-> p', sp |-> stk'.sp] = last
        BY <3>1, ReturnsToContext DEF StackKept
      <3>3. /\ Len(frames') = Len(frames) - 1
            /\ \A n \in 1 .. Len(frames) - 1 : frames'[n] = frames[n]
        BY <1>1, <3>1, FrontOfSeq
      <3>4. CASE Len(frames) = 1
        <4>1. frames' = <<>> /\ last = f
          BY <1>1, <3>1, <3>4, SubSeqEmpty
        <4> QED
          BY <3>2, <4>1 DEF Base
      <3>5. CASE Len(frames) # 1
        <4>1. Len(frames') >= 1 /\ frames'[1] = f
          BY <1>1, <3>3, <3>5
        <4>2. frames' # <<>>
          BY <4>1, EmptySeq
        <4> QED
          BY <4>1, <4>2 DEF Base
      <3> QED
        BY <3>4, <3>5
    <2> QED
      BY <2>1, <2>2
  <1> HIDE DEF f, last
  <1>8. \A c \in Cell : c > f.sp => stk'.mem[c] = stk.mem[c]
    <2>1. \A c \in Cell : c > f.sp => c > stk.sp
      BY <1>2, <1>3, <1>4, <1>5, WidthAssumption DEF Byte, Cell
    <2> QED
      BY <2>1, AboveSpKept DEF StackKept
  <1>9. Above(stk'.mem, f.sp) = Above(stk.mem, f.sp)
    BY <1>3, <1>8, AboveUnchanged
  <1> QED
    BY <1>6, <1>7, <1>9 DEF T!tvars, Code

LEMMA NmiIsNotSeen ==
    ASSUME CpuTypeOK, StackKept, StackKept', FramesKept, EnterHandler
    PROVE  UNCHANGED T!tvars
  <1> DEFINE f == [pc |-> pc, p |-> p, sp |-> stk.sp]
  <1>1. /\ frames \in Seq(Context) /\ stk.sp \in Byte /\ f \in Context
        /\ frames' = Append(frames, f) /\ cart' = cart
    BY DEF CpuTypeOK, StackType, Context, EnterHandler
  <1>2. \A c \in Cell : c > stk.sp => stk'.mem[c] = stk.mem[c]
    BY FramesBegin DEF StackKept
  <1>3. frames' # <<>> /\ frames'[1] = IF frames = <<>> THEN f ELSE frames[1]
    BY <1>1
  <1>4. Base' = Base
    BY <1>3 DEF Base
  <1>5. Base.sp \in Byte /\ Base.sp >= stk.sp
    <2>1. CASE frames = <<>>
      BY <1>1, <2>1 DEF Base, Byte
    <2>2. CASE frames # <<>>
      <3>1. Len(frames) \in Nat /\ Len(frames) >= 1
        BY <1>1, <2>2
      <3>2. frames[1] \in Context /\ frames[Len(frames)] \in Context
        BY <1>1, <3>1
      <3>3. frames[1].sp \in Byte /\ frames[Len(frames)].sp \in Byte
        BY <3>2 DEF Context
      <3>4. frames[Len(frames)].sp <= frames[1].sp
        BY <3>1, <3>3 DEF FramesKept, Byte
      <3>5. stk.sp + 3 <= frames[Len(frames)].sp
        BY <2>2 DEF StackKept, HandlersBalanced
      <3>6. frames[1].sp >= stk.sp
        BY <1>1, <3>3, <3>4, <3>5 DEF Byte
      <3> QED
        BY <2>2, <3>3, <3>6 DEF Base
    <2> QED
      BY <2>1, <2>2
  <1>6. Above(stk'.mem, Base.sp) = Above(stk.mem, Base.sp)
    <2>1. \A c \in Cell : c > Base.sp => c > stk.sp
      BY <1>1, <1>5, WidthAssumption DEF Byte, Cell
    <2> QED
      BY <1>2, <1>5, <2>1, AboveUnchanged
  <1> QED
    BY <1>1, <1>4, <1>6 DEF T!tvars, Code

LEMMA ThreadInit == CpuInit => T!Init(Code, Program[cart].reset)
  <1> SUFFICES ASSUME CpuInit PROVE T!Init(Code, Program[cart].reset)
    OBVIOUS
  <1>1. Base = [pc |-> Program[cart].reset, p |-> 1, sp |-> W - 3]
    BY DEF CpuInit, Base
  <1>2. stk.mem = [c \in Cell |-> IF c = Top THEN Hi(Program[cart].irq) ELSE 0]
    BY DEF CpuInit
  <1>3. Above(stk.mem, W - 3) = [k \in 1 .. 2 |-> 0]
    <2>1. W - 1 - (W - 3) = 2
      BY WidthAssumption
    <2>2. \A k \in 1 .. 2 : (W - 3) + k \in Cell /\ (W - 3) + k # Top
      BY WidthAssumption DEF Cell, Top
    <2>3. \A k \in 1 .. 2 : stk.mem[(W - 3) + k] = 0
      BY <1>2, <2>2
    <2> QED
      BY <2>1, <2>3 DEF Above
  <1>4. [k \in 1 .. 2 |-> 0] = <<0, 0>>
    OBVIOUS
  <1> QED
    BY <1>1, <1>3, <1>4 DEF T!Init

LEMMA StepIsThreadStep ==
    ASSUME CpuTypeOK, StackKept, StackKept', FramesKept, ProgramStep
    PROVE  [T!Next(Program[cart].irq)]_(T!tvars)
  <1>1. CASE UNCHANGED <<cart, pc, p, stk, frames>>
    BY <1>1 DEF T!tvars, Base, Code
  <1>2. CASE Finish
    <2>1. todo = 1 /\ Execute(Opcode) /\ cart' = cart
      BY <1>2 DEF Finish
    <2>2. CASE frames = <<>>
      <3>1. frames' = <<>>
        BY <2>1, <2>2, FramesStep DEF EndsHandler
      <3> QED
        BY <2>1, <2>2, <3>1, InstructionIsThreadStep DEF StackKept
    <2>3. CASE frames # <<>>
      BY <2>1, <2>3, HandlerIsNotSeen
    <2> QED
      BY <2>2, <2>3
  <1>3. CASE EnterHandler
    BY <1>3, NmiIsNotSeen
  <1> QED
    BY <1>1, <1>2, <1>3 DEF ProgramStep

(* The CPU implements Thread: a program that keeps its stack, and whose     *)
(* handlers keep theirs, runs as if there were no interrupts, whatever the  *)
(* cartridge, the page size and the cycles at which its NMIs come.          *)
THEOREM NmisAreTransparent == CpuSpec /\ []StackKept => Uninterrupted
  <1>1. CpuTypeOK /\ StackKept /\ StackKept' /\ FramesKept /\ [CpuNext]_cpuVars
          => [T!Next(Program[cart].irq)]_(T!tvars)
    BY CpuStepIsProgramStep, StepIsThreadStep
  <1> QED
    BY <1>1, ThreadInit, CpuTyped, FramesAlwaysKept, PTL DEF CpuSpec, Uninterrupted
-----------------------------------------------------------------------------
(* Programs with certificates.                                              *)
LEMMA ShapeLength ==
    ASSUME NEW s \in Seq(SUBSET Byte)
    PROVE  Len(s) \in Nat /\ \A n \in 1 .. Len(s) : s[n] \subseteq Byte
  BY ElementOfSeq, LenProperties

(* The bytes of some code stay as they are while its cells do.              *)
LEMMA LiesKept ==
    ASSUME NEW s \in Seq(SUBSET Byte), NEW from \in Int, from < W, NEW sp \in Int, sp >= 0,
           NEW mem, NEW mem2, \A c \in Cell : c > sp => mem2[c] = mem[c],
           Lies(s, from, sp, mem)
    PROVE  Lies(s, from, sp, mem2)
  <1>1. Len(s) \in Nat /\ sp = from - Len(s)
    BY ShapeLength DEF Lies
  <1>2. ASSUME NEW n \in 1 .. Len(s) PROVE mem2[from + 1 - n] \in s[n]
    <2>1. from + 1 - n \in Cell /\ from + 1 - n > sp
      BY <1>1, WidthAssumption DEF Cell
    <2>2. mem2[from + 1 - n] = mem[from + 1 - n]
      BY <2>1
    <2> QED
      BY <2>2 DEF Lies
  <1> QED
    BY <1>1, <1>2 DEF Lies

LEMMA InCodeKept ==
    ASSUME NEW P \in SUBSET Position, NEW a, NEW from \in Int, from < W,
           NEW sp \in Int, sp >= 0, NEW mem, NEW mem2,
           \A c \in Cell : c > sp => mem2[c] = mem[c],
           InCode(P, a, from, sp, mem)
    PROVE  InCode(P, a, from, sp, mem2)
  <1>1. PICK x \in P : x[1] = a /\ Lies(x[2], from, sp, mem)
    BY DEF InCode
  <1>2. x[2] \in Seq(SUBSET Byte)
    BY DEF Position
  <1>3. Lies(x[2], from, sp, mem2)
    BY <1>1, <1>2, LiesKept
  <1> QED
    BY <1>1, <1>3 DEF InCode

(* A byte pushed is one more of them, bytes pulled are that many fewer.     *)
LEMMA LiesPushed ==
    ASSUME NEW s \in Seq(SUBSET Byte), NEW from \in Int, from < W, NEW sp \in Int, sp >= 0,
           NEW mem, NEW mem2, \A c \in Cell : c > sp => mem2[c] = mem[c],
           Lies(s, from, sp, mem), NEW B \in SUBSET Byte, mem2[sp] \in B
    PROVE  /\ Append(s, B) \in Seq(SUBSET Byte)
           /\ Lies(Append(s, B), from, sp - 1, mem2)
  <1> DEFINE t == Append(s, B)
  <1>1. /\ t \in Seq(SUBSET Byte) /\ Len(t) = Len(s) + 1 /\ Len(s) \in Nat
        /\ t[Len(s) + 1] = B /\ \A n \in 1 .. Len(s) : t[n] = s[n]
    BY ShapeLength
  <1>2. Lies(s, from, sp, mem2)
    BY LiesKept
  <1>3. sp = from - Len(s) /\ \A n \in 1 .. Len(s) : mem2[from + 1 - n] \in s[n]
    BY <1>2 DEF Lies
  <1> HIDE DEF t
  <1>4. sp - 1 = from - Len(t) /\ from + 1 - (Len(s) + 1) = sp
    BY <1>1, <1>3
  <1>5. ASSUME NEW n \in 1 .. Len(t) PROVE mem2[from + 1 - n] \in t[n]
    <2>1. CASE n = Len(s) + 1
      BY <1>1, <1>4, <2>1
    <2>2. CASE n # Len(s) + 1
      <3>1. n \in 1 .. Len(s)
        BY <1>1, <2>2
      <3> QED
        BY <1>1, <1>3, <3>1
    <2> QED
      BY <2>1, <2>2
  <1> QED
    BY <1>1, <1>4, <1>5 DEF Lies, t

LEMMA LiesPulled ==
    ASSUME NEW s \in Seq(SUBSET Byte), NEW from \in Int, NEW sp \in Int, NEW mem,
           Lies(s, from, sp, mem), NEW n \in 1 .. Len(s)
    PROVE  /\ Without(s, n) \in Seq(SUBSET Byte)
           /\ Len(Without(s, n)) = Len(s) - n
           /\ \A k \in 1 .. Len(s) - n : Without(s, n)[k] = s[k]
           /\ Lies(Without(s, n), from, sp + n, mem)
           /\ mem[sp + n] \in s[Len(s) + 1 - n]
  <1> DEFINE t == Without(s, n)
             l == Len(s)
  <1>1. l \in Nat /\ sp = from - l
    BY ShapeLength DEF Lies
  <1>2. \A k \in 1 .. l : mem[from + 1 - k] \in s[k]
    BY DEF Lies
  <1>3. \A k \in 1 .. l - n : s[k] \in SUBSET Byte
    BY <1>1, ElementOfSeq
  <1>4. t = SubSeq(s, 1, l - n)
    BY DEF Without
  <1> HIDE DEF l, t
  <1>5. n \in 1 .. l
    BY DEF l
  <1>6. /\ t \in Seq(SUBSET Byte)
        /\ Len(t) = IF 1 <= l - n THEN l - n - 1 + 1 ELSE 0
        /\ \A k \in 1 .. l - n - 1 + 1 : t[k] = s[1 + k - 1]
    BY <1>1, <1>3, <1>4, <1>5, SubSeqProperties
  <1>7. Len(t) = l - n
    BY <1>1, <1>5, <1>6
  <1>8. ASSUME NEW k \in 1 .. l - n PROVE t[k] = s[k] /\ mem[from + 1 - k] \in t[k]
    <2>1. k \in 1 .. l - n - 1 + 1 /\ 1 + k - 1 = k /\ k \in 1 .. l
      BY <1>1, <1>5
    <2> QED
      BY <1>2, <1>6, <2>1
  <1>9. sp + n = from - (l - n) /\ from + 1 - (l + 1 - n) = sp + n /\ l + 1 - n \in 1 .. l
    BY <1>1, <1>5
  <1>10. mem[sp + n] \in s[l + 1 - n]
    BY <1>2, <1>9
  <1> QED
    BY <1>6, <1>7, <1>8, <1>9, <1>10 DEF Lies, l, t

(* A word pushed, as JSR, BRK and trigger_nmi do.                           *)
LEMMA LiesWithWord ==
    ASSUME NEW t \in StackType, NEW w \in Word, t.sp >= 2,
           NEW s \in Seq(SUBSET Byte), NEW from \in Int, from < W, Lies(s, from, t.sp, t.mem)
    PROVE  /\ WithWord(s, w) \in Seq(SUBSET Byte)
           /\ Lies(WithWord(s, w), from, Push16(t, w).sp, Push16(t, w).mem)
  <1> DEFINE u == Push16(t, w)
             one == Append(s, {Hi(w)})
  <1>1. t.sp \in Int /\ t.sp - 1 \in Int /\ t.sp >= 0 /\ t.sp - 1 >= 0 /\ t.sp - 1 - 1 = t.sp - 2
    BY DEF StackType, Byte
  <1>2. /\ u.sp = t.sp - 2 /\ u.mem[t.sp] = Hi(w) /\ u.mem[t.sp - 1] = Lo(w)
        /\ \A c \in Cell : c > t.sp => u.mem[c] = t.mem[c]
    BY Push16InPage
  <1>3. {Hi(w)} \in SUBSET Byte /\ {Lo(w)} \in SUBSET Byte
    BY WordSplits
  <1> HIDE DEF u
  <1>4. u.mem[t.sp] \in {Hi(w)}
    BY <1>2
  <1>5. one \in Seq(SUBSET Byte) /\ Lies(one, from, t.sp - 1, u.mem)
    BY <1>1, <1>2, <1>3, <1>4, LiesPushed
  <1> HIDE DEF one
  <1>6. u.mem[t.sp - 1] \in {Lo(w)} /\ \A c \in Cell : c > t.sp - 1 => u.mem[c] = u.mem[c]
    BY <1>2
  <1>7. /\ Append(one, {Lo(w)}) \in Seq(SUBSET Byte)
        /\ Lies(Append(one, {Lo(w)}), from, t.sp - 1 - 1, u.mem)
    BY <1>1, <1>3, <1>5, <1>6, LiesPushed
  <1> QED
    BY <1>1, <1>2, <1>7 DEF WithWord, one, u

(* A word pulled is one of those that the shape of the stack allows.        *)
LEMMA WordPulled ==
    ASSUME NEW t \in StackType, t.sp + 2 < W, NEW s \in Seq(SUBSET Byte), Len(s) >= 2,
           NEW from \in Int, Lies(s, from, t.sp, t.mem)
    PROVE  /\ Popped16(t) \in WordsOn(s)
           /\ Lies(Without(s, 2), from, Pop16(t).sp, Pop16(t).mem)
  <1>1. t.sp \in Int /\ Len(s) \in Nat
    BY ShapeLength DEF StackType, Byte
  <1>2. 1 \in 1 .. Len(s) /\ 2 \in 1 .. Len(s)
    BY <1>1
  <1>3. t.mem[t.sp + 1] \in s[Len(s) + 1 - 1] /\ t.mem[t.sp + 2] \in s[Len(s) + 1 - 2]
        /\ Lies(Without(s, 2), from, t.sp + 2, t.mem)
    BY <1>1, <1>2, LiesPulled
  <1>4. Len(s) + 1 - 1 = Len(s) /\ Len(s) + 1 - 2 = Len(s) - 1
    BY <1>1
  <1>5. /\ Popped16(t) = MakeWord(t.mem[t.sp + 2], t.mem[t.sp + 1])
        /\ Pop16(t) = [t EXCEPT !.sp = t.sp + 2]
    BY PopInPage
  <1>6. Pop16(t).sp = t.sp + 2 /\ Pop16(t).mem = t.mem
    BY <1>5 DEF StackType
  <1> QED
    BY <1>3, <1>4, <1>5, <1>6 DEF WordsOn

(* An instruction takes code to one of the positions that Moves lists.      *)
LEMMA InstructionMoves ==
    ASSUME CpuTypeOK, StackHasRoom, todo = 1, Execute(Opcode),
           stk.mem[Top] = Hi(Program[cart].irq),
           NEW x \in Position, x[1] = pc, Opcode.kind # "invalid",
           Pulls(Opcode.kind) <= Len(x[2]),
           NEW from \in Int, from < W, Lies(x[2], from, stk.sp, stk.mem),
           Opcode.kind = "txs" => from = W - 1
    PROVE  InCode(Moves(cart, x), pc', from, stk'.sp, stk'.mem)
  <1> DEFINE s == x[2]
             op == Opcode
             on == Plus(pc, op.size)
             M == Moves(cart, x)
             There(y) == y \in M /\ y[1] = pc' /\ Lies(y[2], from, stk'.sp, stk'.mem)
  <1>1. /\ stk \in StackType /\ pc \in Word /\ p \in Byte
        /\ Plus(pc, 1) \in Word /\ Plus(pc, 2) \in Word
        /\ s \in Seq(SUBSET Byte) /\ Len(s) \in Nat
    BY PlusType, ShapeLength DEF CpuTypeOK, Position
  <1>2. stk.sp \in Int /\ stk.sp >= 0 /\ Lies(s, from, stk.sp, stk.mem)
    BY <1>1 DEF StackType, Byte
  <1>3. op = OpcodeAt(cart, x)
    BY DEF OpcodeAt, Opcode, Code
  <1>4. /\ op.kind \in {"pha", "php"} => stk.sp >= 1
        /\ op.kind = "jsr" => stk.sp >= 2
        /\ op.kind = "brk" => stk.sp >= 3
        /\ op.kind \in {"pla", "plp"} => stk.sp + 1 < W
        /\ op.kind = "rts" => stk.sp + 2 < W
        /\ op.kind = "rti" => stk.sp + 3 < W
    BY DEF StackHasRoom
  <1>5. /\ op.kind \in {"pla", "plp"} => 1 <= Len(s)
        /\ op.kind = "rts" => 2 <= Len(s)
        /\ op.kind = "rti" => 3 <= Len(s)
    BY DEF Pulls
  <1>6. op.kind = "txs" => from = W - 1 /\ op.arg \in Byte
    BY OpcodeType
  <1>7. op.kind # "invalid" /\ Execute(op) /\ x[1] = pc
    OBVIOUS
  <1>8. SUFFICES \E y : There(y)
    BY DEF InCode
  <1> HIDE DEF op
  <1>a. CASE PushA(op) \/ PushP(op)
    <2>1. {0, Half} \subseteq Byte
      BY WidthAssumption DEF Half, Byte
    <2>2. PICK v \in Byte : stk' = Push(stk, v)
      BY <1>1, <1>a, <2>1 DEF PushA, PushP
    <2>3. op.kind \in {"pha", "php"} /\ pc' = on
      BY <1>a DEF PushA, PushP, Advance
    <2>4. M = {<<on, Append(s, Byte)>>}
      BY <1>3, <1>7, <2>3 DEF Moves
    <2>5. /\ stk'.sp = stk.sp - 1 /\ stk'.mem[stk.sp] = v
          /\ \A c \in Cell : c > stk.sp => stk'.mem[c] = stk.mem[c]
      BY <1>1, <1>4, <2>2, <2>3, PushInPage
    <2>6. Lies(Append(s, Byte), from, stk.sp - 1, stk'.mem)
      BY <1>1, <1>2, <2>5, LiesPushed
    <2>7. There(<<on, Append(s, Byte)>>)
      BY <2>3, <2>4, <2>5, <2>6
    <2> QED
      BY <2>7
  <1>b. CASE PullA(op) \/ PullP(op)
    <2>1. op.kind \in {"pla", "plp"} /\ pc' = on /\ stk' = Pop(stk)
      BY <1>b DEF PullA, PullP, Advance
    <2>2. M = {<<on, Without(s, 1)>>}
      BY <1>3, <1>7, <2>1 DEF Moves
    <2>3. Pop(stk) = [stk EXCEPT !.sp = stk.sp + 1]
      BY <1>1, <1>4, <2>1, PopInPage
    <2>4. stk'.sp = stk.sp + 1 /\ stk'.mem = stk.mem
      BY <1>1, <2>1, <2>3 DEF StackType
    <2>5. 1 \in 1 .. Len(s)
      BY <1>1, <1>5, <2>1
    <2>6. Lies(Without(s, 1), from, stk.sp + 1, stk.mem)
      BY <1>1, <1>2, <2>5, LiesPulled
    <2>7. There(<<on, Without(s, 1)>>)
      BY <2>1, <2>2, <2>4, <2>6
    <2> QED
      BY <2>7
  <1>c. CASE Call(op)
    <2>1. op.kind = "jsr" /\ pc' = op.arg /\ stk' = Push16(stk, Plus(pc, 2))
      BY <1>c DEF Call
    <2>2. M = {<<op.arg, WithWord(s, Plus(pc, 2))>>}
      BY <1>3, <1>7, <2>1 DEF Moves
    <2>3. Lies(WithWord(s, Plus(pc, 2)), from, stk'.sp, stk'.mem)
      BY <1>1, <1>2, <1>4, <2>1, LiesWithWord
    <2>4. There(<<op.arg, WithWord(s, Plus(pc, 2))>>)
      BY <2>1, <2>2, <2>3
    <2> QED
      BY <2>4
  <1>d. CASE Return(op)
    <2> DEFINE w == Popped16(stk)
    <2>1. op.kind = "rts" /\ pc' = Plus(w, 1) /\ stk' = Pop16(stk)
      BY <1>d DEF Return
    <2>2. w \in WordsOn(s) /\ Lies(Without(s, 2), from, stk'.sp, stk'.mem)
      BY <1>1, <1>2, <1>4, <1>5, <2>1, WordPulled
    <2>3. M = {<<Plus(v, 1), Without(s, 2)>> : v \in WordsOn(s)}
      BY <1>3, <1>7, <2>1 DEF Moves
    <2> HIDE DEF w
    <2>4. There(<<Plus(w, 1), Without(s, 2)>>)
      BY <2>1, <2>2, <2>3
    <2> QED
      BY <2>4
  <1>e. CASE ReturnFromInterrupt(op)
    <2> DEFINE u == Pop(stk)
               w == Popped16(u)
               r == Without(s, 1)
    <2>1. op.kind = "rti" /\ pc' = w /\ stk' = Pop16(u)
      BY <1>e DEF ReturnFromInterrupt
    <2>2. stk.sp + 1 < W /\ 1 \in 1 .. Len(s)
      BY <1>1, <1>2, <1>4, <1>5, <2>1, WidthAssumption
    <2>3. u = [stk EXCEPT !.sp = stk.sp + 1]
      BY <1>1, <2>2, PopInPage
    <2>4. u \in StackType /\ u.sp = stk.sp + 1 /\ u.mem = stk.mem
      BY <1>1, <2>3, PopType DEF StackType
    <2>5. r \in Seq(SUBSET Byte) /\ Len(r) = Len(s) - 1 /\ Lies(r, from, u.sp, u.mem)
      BY <1>1, <1>2, <2>2, <2>4, LiesPulled
    <2> HIDE DEF u, r
    <2>6. u.sp + 2 < W /\ Len(r) >= 2
      BY <1>1, <1>2, <1>4, <1>5, <2>1, <2>4, <2>5, WidthAssumption
    <2>7. w \in WordsOn(r) /\ Lies(Without(r, 2), from, stk'.sp, stk'.mem)
      BY <2>1, <2>4, <2>5, <2>6, WordPulled
    <2>8. Without(r, 2) = Without(s, 3)
      <3> DEFINE l == Len(s)
      <3>1. l \in Nat /\ l >= 3 /\ Len(r) - 2 = l - 3 /\ s \in [1 .. l -> SUBSET Byte]
        BY <1>1, <1>5, <2>1, <2>5, LenProperties
      <3>2. \A k \in 1 .. l - 1 : r[k] = s[k]
        BY <1>1, <1>2, <2>2, LiesPulled DEF r
      <3> HIDE DEF l
      <3>3. l - 3 \in Int /\ \A k \in 1 .. l - 3 : k \in 1 .. l - 1 /\ s[k] \in SUBSET Byte
        BY <3>1
      <3>4. \A k \in 1 .. l - 3 : r[k] \in SUBSET Byte
        BY <3>2, <3>3
      <3>5. /\ SubSeq(s, 1, l - 3) \in Seq(SUBSET Byte)
            /\ Len(SubSeq(s, 1, l - 3)) = IF 1 <= l - 3 THEN (l - 3) - 1 + 1 ELSE 0
            /\ \A k \in 1 .. (l - 3) - 1 + 1 : SubSeq(s, 1, l - 3)[k] = s[1 + k - 1]
        BY <3>3, SubSeqProperties
      <3>6. /\ SubSeq(r, 1, l - 3) \in Seq(SUBSET Byte)
            /\ Len(SubSeq(r, 1, l - 3)) = IF 1 <= l - 3 THEN (l - 3) - 1 + 1 ELSE 0
            /\ \A k \in 1 .. (l - 3) - 1 + 1 : SubSeq(r, 1, l - 3)[k] = r[1 + k - 1]
        BY <3>3, <3>4, SubSeqProperties
      <3>7. ASSUME NEW k \in 1 .. Len(SubSeq(r, 1, l - 3))
            PROVE  SubSeq(r, 1, l - 3)[k] = SubSeq(s, 1, l - 3)[k]
        <4>1. k \in 1 .. l - 3 /\ k \in 1 .. (l - 3) - 1 + 1 /\ 1 + k - 1 = k
          BY <3>1, <3>6
        <4> QED
          BY <3>2, <3>3, <3>5, <3>6, <4>1
      <3>8. SubSeq(r, 1, l - 3) = SubSeq(s, 1, l - 3)
        BY <3>5, <3>6, <3>7, SeqEqual
      <3> QED
        BY <3>1, <3>8 DEF Without, l
    <2>9. M = {<<v, Without(s, 3)>> : v \in WordsOn(r)}
      BY <1>3, <1>7, <2>1 DEF Moves, r
    <2> HIDE DEF w
    <2>10. There(<<w, Without(s, 3)>>)
      BY <2>1, <2>7, <2>8, <2>9
    <2> QED
      BY <2>10
  <1>f. CASE Break(op)
    <2> DEFINE w == Plus(pc, 1)
               u == Push16(stk, w)
               r == WithWord(s, w)
    <2>1. /\ op.kind = "brk" /\ stk' = Push(u, p)
          /\ pc' = MakeWord(stk'.mem[Top], Lo(Program[cart].irq))
      BY <1>f DEF Break
    <2>2. stk.sp >= 3 /\ stk.sp >= 2
      BY <1>2, <1>4, <2>1
    <2>3. /\ u \in StackType /\ u.sp = stk.sp - 2
          /\ \A c \in Cell : c > stk.sp => u.mem[c] = stk.mem[c]
      BY <1>1, <2>2, Push16Type, Push16InPage
    <2>4. r \in Seq(SUBSET Byte) /\ Lies(r, from, u.sp, u.mem)
      BY <1>1, <1>2, <2>2, LiesWithWord
    <2>5. M = {<<Program[cart].irq, Append(r, Byte)>>}
      BY <1>3, <1>7, <2>1 DEF Moves
    <2> HIDE DEF u, r, w
    <2>6. u.sp \in Int /\ u.sp >= 1 /\ u.sp >= 0
      BY <1>2, <2>2, <2>3
    <2>7. /\ stk'.sp = u.sp - 1 /\ stk'.mem[u.sp] = p
          /\ \A c \in Cell : c > u.sp => stk'.mem[c] = u.mem[c]
      BY <1>1, <2>1, <2>3, <2>6, PushInPage
    <2>8. Lies(Append(r, Byte), from, u.sp - 1, stk'.mem)
      BY <1>1, <2>4, <2>6, <2>7, LiesPushed
    <2>9. stk'.mem[Top] = stk.mem[Top]
      <3>1. stk.sp \in Byte /\ Top \in Cell
        BY <1>1, WidthAssumption DEF Top, Cell, StackType
      <3>2. Top > stk.sp /\ Top > u.sp
        BY <2>3, <3>1, WidthAssumption DEF Top, Byte
      <3> QED
        BY <2>3, <2>7, <3>1, <3>2
    <2>10. pc' = Program[cart].irq
      BY <2>1, <2>9, OpcodeType, WordSplits
    <2>11. There(<<Program[cart].irq, Append(r, Byte)>>)
      BY <2>5, <2>7, <2>8, <2>10
    <2> QED
      BY <2>11
  <1>g. CASE TransferXToSP(op)
    <2> DEFINE n == W - 1 - op.arg
               r == [k \in 1 .. n |-> Byte]
    <2>1. op.kind = "txs" /\ pc' = on /\ stk' = [stk EXCEPT !.sp = op.arg]
      BY <1>g DEF TransferXToSP, Advance
    <2>2. M = {<<on, r>>}
      BY <1>3, <1>7, <2>1 DEF Moves
    <2>3. stk'.sp = op.arg /\ stk'.mem = stk.mem
      BY <1>1, <2>1 DEF StackType
    <2>4. n \in Nat /\ op.arg = from - n /\ from = W - 1
      BY <1>6, <2>1, WidthAssumption DEF Byte
    <2> HIDE DEF n
    <2>5. Len(r) = n /\ \A k \in 1 .. n : r[k] = Byte
      BY <2>4
    <2>6. ASSUME NEW k \in 1 .. n PROVE stk.mem[from + 1 - k] \in Byte
      <3>1. from + 1 - k \in Cell
        BY <1>6, <2>1, <2>4, WidthAssumption DEF Cell, Byte
      <3> QED
        BY <1>1, <3>1 DEF StackType
    <2>7. Lies(r, from, stk'.sp, stk'.mem)
      BY <2>3, <2>4, <2>5, <2>6 DEF Lies
    <2> HIDE DEF r
    <2>8. There(<<on, r>>)
      BY <2>1, <2>2, <2>7
    <2> QED
      BY <2>8
  <1>h. CASE Plain(op) \/ DataOp(op) \/ IndexOp(op) \/ ReadStatus(op) \/ WriteCtrl(op)
             \/ BranchOnPlus(op) \/ BranchOnOther(op) \/ Jump(op)
    <2>1. stk' = stk
      BY <1>h, Zenon DEF Plain, DataOp, IndexOp, ReadStatus, WriteCtrl, BranchOnPlus,
                         BranchOnOther, Jump
    <2>2. <<pc', s>> \in M
      <3>1. CASE BranchOnPlus(op) \/ BranchOnOther(op)
        <4>1. op.kind \in {"bpl", "branch"} /\ pc' \in {on, op.arg}
          BY <3>1 DEF BranchOnPlus, BranchOnOther
        <4>2. M = {<<on, s>>, <<op.arg, s>>}
          BY <1>3, <1>7, <4>1 DEF Moves
        <4> QED
          BY <4>1, <4>2
      <3>2. CASE Jump(op)
        <4>1. op.kind = "jmp" /\ pc' = op.arg
          BY <3>2 DEF Jump
        <4>2. M = {<<op.arg, s>>}
          BY <1>3, <1>7, <4>1 DEF Moves
        <4> QED
          BY <4>1, <4>2
      <3>3. CASE Plain(op) \/ DataOp(op) \/ IndexOp(op) \/ ReadStatus(op) \/ WriteCtrl(op)
        <4>1. op.kind \in {"plain", "data", "index", "status", "ctrl"} /\ pc' = on
          BY <3>3 DEF Plain, DataOp, IndexOp, ReadStatus, WriteCtrl, Advance
        <4>2. M = {<<on, s>>}
          BY <1>3, <1>7, <4>1 DEF Moves
        <4> QED
          BY <4>1, <4>2
      <3> QED
        BY <1>h, <3>1, <3>2, <3>3
    <2>3. There(<<pc', s>>)
      BY <1>2, <2>1, <2>2
    <2> QED
      BY <2>3
  <1> QED
    BY <1>7, <1>a, <1>b, <1>c, <1>d, <1>e, <1>f, <1>g, <1>h DEF Execute, Ignore

-----------------------------------------------------------------------------
(* Where there is room for the positions of some code, there is for the     *)
(* instruction it is at.                                                    *)
LEMMA RoomInCode ==
    ASSUME CpuTypeOK, NEW P, NEW goal, goal \in {"none", "rti", "ctrl"}, Closed(cart, P, goal),
           NEW x \in P, x[1] = pc, NEW from \in Int, from < W,
           Lies(x[2], from, stk.sp, stk.mem), \A y \in P : Len(y[2]) <= from,
           goal = "rti" => from + 3 < W
    PROVE  StackHasRoom
  <1> DEFINE s == x[2]
             kind == Opcode.kind
  <1>1. x \in Position /\ s \in Seq(SUBSET Byte) /\ Len(s) \in Nat
    BY ShapeLength DEF Closed, Position
  <1>2. stk.sp = from - Len(s)
    BY DEF Lies
  <1>3. OpcodeAt(cart, x) = Opcode
    BY DEF OpcodeAt, Opcode, Code
  <1>4. CASE Ends(cart, x, goal)
    <2>1. kind \in Kind
      BY OpcodeType, InstructionFields
    <2>2. kind = "invalid" \/ (kind = goal /\ (goal = "rti" => s = <<>>))
      BY <1>3, <1>4 DEF Ends
    <2> HIDE DEF kind, s
    <2>3. kind \in {"invalid", "ctrl"} \/ (kind = "rti" /\ goal = "rti" /\ s = <<>>)
      BY <2>1, <2>2 DEF Kind
    <2>4. kind = "rti" => stk.sp + 3 < W
      <3>1. kind = "rti" => Len(s) = 0 /\ from + 3 < W
        BY <2>3, EmptySeq
      <3> QED
        BY <1>2, <3>1
    <2> QED
      BY <2>3, <2>4 DEF StackHasRoom, kind
  <1>5. CASE ~Ends(cart, x, goal)
    <2>1. Pulls(kind) <= Len(s) /\ Moves(cart, x) \subseteq P
      BY <1>3, <1>5 DEF Closed
    <2>2. ASSUME NEW a, NEW t, <<a, t>> \in Moves(cart, x) PROVE Len(t) <= from
      <3>1. <<a, t>> \in P /\ <<a, t>>[2] = t
        BY <2>1, <2>2
      <3> QED
        BY <3>1
    <2>3. kind \in {"pha", "php"} => stk.sp >= 1
      <3> SUFFICES ASSUME kind \in {"pha", "php"} PROVE stk.sp >= 1
        OBVIOUS
      <3>1. <<Plus(x[1], Opcode.size), Append(s, Byte)>> \in Moves(cart, x)
        BY <1>3 DEF Moves
      <3>2. Len(Append(s, Byte)) = Len(s) + 1
        BY <1>1
      <3>3. Len(s) + 1 <= from
        BY <2>2, <3>1, <3>2
      <3> QED
        BY <1>1, <1>2, <3>3
    <2>4. ASSUME NEW w \in Word PROVE WithWord(s, w) \in Seq(SUBSET Byte) /\ Len(WithWord(s, w)) = Len(s) + 2
      <3>1. {Hi(w)} \in SUBSET Byte /\ {Lo(w)} \in SUBSET Byte
        BY WordSplits
      <3>2. Append(s, {Hi(w)}) \in Seq(SUBSET Byte) /\ Len(Append(s, {Hi(w)})) = Len(s) + 1
        BY <1>1, <3>1
      <3>3. /\ WithWord(s, w) \in Seq(SUBSET Byte)
            /\ Len(WithWord(s, w)) = Len(Append(s, {Hi(w)})) + 1
        BY <3>1, <3>2 DEF WithWord
      <3> QED
        BY <1>1, <3>2, <3>3
    <2>5. pc \in Word /\ Plus(pc, 1) \in Word /\ Plus(pc, 2) \in Word
      BY PlusType DEF CpuTypeOK
    <2>6. kind = "jsr" => stk.sp >= 2
      <3> SUFFICES ASSUME kind = "jsr" PROVE stk.sp >= 2
        OBVIOUS
      <3>1. <<Opcode.arg, WithWord(s, Plus(pc, 2))>> \in Moves(cart, x)
        BY <1>3 DEF Moves
      <3>2. Len(s) + 2 <= from
        BY <2>2, <2>4, <2>5, <3>1
      <3> QED
        BY <1>1, <1>2, <3>2
    <2>7. kind = "brk" => stk.sp >= 3
      <3> SUFFICES ASSUME kind = "brk" PROVE stk.sp >= 3
        OBVIOUS
      <3>1. <<Program[cart].irq, Append(WithWord(s, Plus(pc, 1)), Byte)>> \in Moves(cart, x)
        BY <1>3 DEF Moves
      <3>2. Len(Append(WithWord(s, Plus(pc, 1)), Byte)) = Len(s) + 3
        BY <1>1, <2>4, <2>5
      <3>3. Len(s) + 3 <= from
        BY <2>2, <3>1, <3>2
      <3> QED
        BY <1>1, <1>2, <3>3
    <2>8. /\ kind \in {"pla", "plp"} => 1 <= Len(s)
          /\ kind = "rts" => 2 <= Len(s)
          /\ kind = "rti" => 3 <= Len(s)
      BY <2>1 DEF Pulls
    <2>9. /\ kind \in {"pla", "plp"} => stk.sp + 1 < W
          /\ kind = "rts" => stk.sp + 2 < W
          /\ kind = "rti" => stk.sp + 3 < W
      <3> DEFINE l == Len(s)
      <3>1. l \in Nat /\ stk.sp = from - l /\ W \in Nat
        BY <1>1, <1>2, WidthAssumption
      <3> HIDE DEF l
      <3>2. (1 <= l => stk.sp + 1 < W) /\ (2 <= l => stk.sp + 2 < W) /\ (3 <= l => stk.sp + 3 < W)
        BY <3>1
      <3> QED
        BY <2>8, <3>2 DEF l
    <2> QED
      BY <2>3, <2>6, <2>7, <2>9 DEF StackHasRoom
  <1> QED
    BY <1>4, <1>5

LEMMA Reserve ==
    ASSUME NEW k \in Nat, NEW q \in Nat
    PROVE  k * q \in Nat /\ (k >= 1 => (k - 1) * q \in Nat /\ k * q = (k - 1) * q + q)
  OBVIOUS

(* What the invariant says of each code in turn.                            *)
CodeFits(P, goal, n) ==
    /\ From(n) \in Nat /\ From(n) < W
    /\ goal \in {"none", "rti"} /\ Closed(cart, P, goal)
    /\ \A y \in P : Len(y[2]) <= From(n)
    /\ goal = "rti" => From(n) + 3 < W /\ \A y \in P : OpcodeAt(cart, y).kind # "txs"
    /\ goal = "none" => From(n) = W - 1
    /\ NowSp(n) \in Nat /\ NowSp(n) <= From(n)

LEMMA CodesFit ==
    ASSUME CpuTypeOK, NEW main, NEW handler, NEW room \in Nat, NEW nest \in Nat,
           KeepsStack(cart, main[cart], handler[cart], room, nest),
           Disciplined(main, handler, room, nest)
    PROVE  /\ CodeFits(main[cart], "none", 0)
           /\ NowSp(0) >= nest * (3 + room)
           /\ \A n \in 1 .. Len(frames) :
                /\ CodeFits(handler[cart], "rti", n)
                /\ NowSp(n) >= (nest - n) * (3 + room)
                /\ From(n) = frames[n].sp - 3 /\ frames[n].sp \in Byte
  <1>1. frames \in Seq(Context) /\ stk.sp \in Byte /\ Len(frames) \in Nat
    BY LenProperties DEF CpuTypeOK, StackType
  <1>2. \A n \in 1 .. Len(frames) : frames[n].sp \in Byte /\ From(n) = frames[n].sp - 3
    <2> TAKE n \in 1 .. Len(frames)
    <2>1. frames[n] \in Context
      BY <1>1, ElementOfSeq
    <2> QED
      BY <2>1 DEF Context, From
  <1>3. \A n \in 0 .. Len(frames) : NowSp(n) \in Byte
    <2> TAKE n \in 0 .. Len(frames)
    <2>1. n # Len(frames) => n + 1 \in 1 .. Len(frames)
      BY <1>1
    <2> QED
      BY <1>1, <1>2, <2>1 DEF NowSp
  <1>4. From(0) = W - 1 /\ W - 1 \in Nat
    BY WidthAssumption DEF From
  <1>5. ASSUME NEW P, P \subseteq Position, NEW n, Within(P, n), From(n) \in Int
        PROVE  \E x \in P : Len(x[2]) \in Nat /\ NowSp(n) = From(n) - Len(x[2])
    <2>1. PICK x \in P : Lies(x[2], From(n), NowSp(n), stk.mem)
      BY <1>5 DEF Within, InCode
    <2>2. x[2] \in Seq(SUBSET Byte)
      BY <1>5 DEF Position
    <2> QED
      BY <2>1, <2>2, ShapeLength DEF Lies
  <1>6. CodeFits(main[cart], "none", 0) /\ NowSp(0) >= nest * (3 + room)
    <2>1. Closed(cart, main[cart], "none") /\ main[cart] \subseteq Position
      BY DEF KeepsStack, Closed
    <2>2. Within(main[cart], 0)
      BY DEF Disciplined
    <2>3. PICK x \in main[cart] : Len(x[2]) \in Nat /\ NowSp(0) = From(0) - Len(x[2])
      BY <1>4, <1>5, <2>1, <2>2
    <2>4. nest * (3 + room) \in Nat
      BY Reserve
    <2>5. Len(x[2]) + nest * (3 + room) < W
      BY DEF KeepsStack
    <2>6. NowSp(0) >= nest * (3 + room) /\ NowSp(0) <= From(0) /\ NowSp(0) \in Nat
      <3> DEFINE q == nest * (3 + room)
                 l == Len(x[2])
      <3>1. q \in Nat /\ l \in Nat /\ l + q < W /\ NowSp(0) = From(0) - l
        BY <2>3, <2>4, <2>5
      <3> HIDE DEF q, l
      <3>2. NowSp(0) >= q /\ NowSp(0) <= From(0) /\ NowSp(0) \in Nat
        BY <1>4, <3>1, WidthAssumption
      <3> QED
        BY <3>2 DEF q
    <2>7. \A y \in main[cart] : Len(y[2]) <= From(0)
      <3> TAKE y \in main[cart]
      <3>1. Len(y[2]) \in Nat /\ Len(y[2]) < W
        BY <2>1, ShapeLength DEF Position, Closed
      <3> QED
        BY <1>4, <3>1, WidthAssumption
    <2> QED
      BY <1>4, <2>1, <2>6, <2>7, WidthAssumption DEF CodeFits
  <1>7. ASSUME NEW n \in 1 .. Len(frames)
        PROVE  CodeFits(handler[cart], "rti", n) /\ NowSp(n) >= (nest - n) * (3 + room)
    <2> DEFINE q == (nest - n) * (3 + room)
    <2>1. /\ Closed(cart, handler[cart], "rti") /\ handler[cart] \subseteq Position
          /\ \A y \in handler[cart] : Len(y[2]) <= room /\ OpcodeAt(cart, y).kind # "txs"
      BY DEF KeepsStack, Closed
    <2>2. Within(handler[cart], n) /\ From(n) >= q + room /\ Len(frames) <= nest
      BY DEF Disciplined
    <2>3. From(n) \in Int /\ From(n) + 3 < W /\ From(n) < W
      BY <1>2, WidthAssumption DEF Byte
    <2>4. q \in Nat
      <3>1. nest - n \in Nat
        BY <1>1, <2>2
      <3> QED
        BY <3>1, Reserve
    <2>5. PICK x \in handler[cart] : Len(x[2]) \in Nat /\ NowSp(n) = From(n) - Len(x[2])
      BY <1>5, <2>1, <2>2, <2>3
    <2> HIDE DEF q
    <2>6. NowSp(n) >= q /\ NowSp(n) <= From(n) /\ NowSp(n) \in Nat /\ From(n) \in Nat
      <3>1. Len(x[2]) <= room
        BY <2>1
      <3> QED
        BY <2>2, <2>3, <2>4, <2>5, <3>1
    <2>7. \A y \in handler[cart] : Len(y[2]) <= From(n)
      <3> TAKE y \in handler[cart]
      <3>1. Len(y[2]) \in Nat /\ Len(y[2]) <= room
        BY <2>1, ShapeLength DEF Position
      <3> QED
        BY <2>2, <2>3, <2>4, <3>1
    <2> QED
      BY <2>1, <2>3, <2>6, <2>7 DEF CodeFits, q
  <1> QED
    BY <1>2, <1>6, <1>7

(* Programs with certificates keep their stack.                             *)
LEMMA DisciplineKeepsStack ==
    ASSUME CpuTypeOK, NEW main, NEW handler, NEW room \in Nat, NEW nest \in Nat,
           KeepsStack(cart, main[cart], handler[cart], room, nest),
           Disciplined(main, handler, room, nest)
    PROVE  StackKept
  <1> DEFINE l == Len(frames)
             P == IF l = 0 THEN main[cart] ELSE handler[cart]
             goal == IF l = 0 THEN "none" ELSE "rti"
  <1>1. frames \in Seq(Context) /\ l \in Nat /\ (frames # <<>> => l \in 1 .. l)
    BY LenProperties, EmptySeq DEF CpuTypeOK
  <1>2. CodeFits(P, goal, l) /\ Within(P, l)
    BY <1>1, CodesFit DEF Disciplined
  <1>3. NowPc(l) = pc /\ NowSp(l) = stk.sp
    BY DEF NowPc, NowSp
  <1>4. HandlersBalanced
    <2> SUFFICES ASSUME frames # <<>> PROVE stk.sp + 3 <= frames[l].sp
      BY DEF HandlersBalanced
    <2>1. From(l) = frames[l].sp - 3 /\ frames[l].sp \in Byte
      BY <1>1, CodesFit
    <2>2. stk.sp \in Nat /\ stk.sp <= From(l)
      BY <1>2, <1>3 DEF CodeFits
    <2> QED
      BY <2>1, <2>2 DEF Byte
  <1> HIDE DEF P, goal, l
  <1>5. PICK x \in P : x[1] = pc /\ Lies(x[2], From(l), stk.sp, stk.mem)
    BY <1>2, <1>3 DEF Within, InCode
  <1>6. StackHasRoom
    BY <1>2, <1>5, RoomInCode DEF CodeFits
  <1> QED
    BY <1>4, <1>6 DEF StackKept

(* The two bytes above the first stack pointer are clear.                   *)
LEMMA StartLies ==
    ASSUME CpuInit
    PROVE  Lies(<<{0}, {0}>>, W - 1, stk.sp, stk.mem) /\ stk.mem[Top] = Hi(Program[cart].irq)
  <1> DEFINE s == <<{0}, {0}>>
  <1>1. stk.sp = W - 3 /\ stk.mem = [c \in Cell |-> IF c = Top THEN Hi(Program[cart].irq) ELSE 0]
    BY DEF CpuInit
  <1>2. stk.mem[Top] = Hi(Program[cart].irq)
    BY <1>1, WidthAssumption DEF Cell, Top
  <1>3. Len(s) = 2 /\ s[1] = {0} /\ s[2] = {0} /\ W - 3 = W - 1 - 2
    BY WidthAssumption
  <1>4. ASSUME NEW n \in 1 .. 2 PROVE stk.mem[W - 1 + 1 - n] = 0
    <2>1. W - 1 + 1 - n \in Cell /\ W - 1 + 1 - n # Top
      BY WidthAssumption DEF Cell, Top
    <2> QED
      BY <1>1, <2>1
  <1>5. \A n \in 1 .. 2 : s[n] = {0}
    OBVIOUS
  <1> HIDE DEF s
  <1>6. \A n \in 1 .. Len(s) : stk.mem[W - 1 + 1 - n] \in s[n]
    BY <1>3, <1>4, <1>5
  <1>7. Lies(s, W - 1, stk.sp, stk.mem)
    BY <1>1, <1>3, <1>6 DEF Lies
  <1> QED
    BY <1>2, <1>7 DEF s

LEMMA DisciplineInit ==
    ASSUME CpuInit, NEW main, NEW handler, NEW room \in Nat, NEW nest \in Nat,
           KeepsStack(cart, main[cart], handler[cart], room, nest)
    PROVE  Disciplined(main, handler, room, nest)
  <1> DEFINE s == <<{0}, {0}>>
  <1>1. frames = <<>> /\ Len(frames) = 0 /\ 1 .. Len(frames) = {}
    BY DEF CpuInit
  <1>2. NowPc(0) = Program[cart].reset /\ NowSp(0) = stk.sp /\ From(0) = W - 1
    BY <1>1 DEF CpuInit, NowPc, NowSp, From
  <1>3. Lies(s, W - 1, stk.sp, stk.mem)
    BY StartLies
  <1>4. FromReset(cart) \in main[cart] /\ FromReset(cart)[1] = NowPc(0) /\ FromReset(cart)[2] = s
    BY <1>2 DEF KeepsStack, FromReset
  <1> HIDE DEF s
  <1>5. Within(main[cart], 0)
    BY <1>2, <1>3, <1>4 DEF Within, InCode
  <1> QED
    BY <1>1, <1>5 DEF Disciplined

(* The code that runs executes an instruction: it is then at one of its own *)
(* positions, unless this was the RTI that ends it.                         *)
LEMMA CodeRuns ==
    ASSUME CpuTypeOK, StackHasRoom, todo = 1, Execute(Opcode), cart' = cart, frames' = frames,
           stk.mem[Top] = Hi(Program[cart].irq),
           NEW P, NEW goal, NEW n, n = Len(frames), CodeFits(P, goal, n), Within(P, n),
           goal = "rti" <=> frames # <<>>, From(n)' = From(n)
    PROVE  Within(P, n)'
  <1>1. NowPc(n) = pc /\ NowSp(n) = stk.sp /\ NowPc(n)' = pc' /\ NowSp(n)' = stk'.sp
    BY DEF NowPc, NowSp
  <1>2. PICK x \in P : x[1] = pc /\ Lies(x[2], From(n), stk.sp, stk.mem)
    BY <1>1 DEF Within, InCode
  <1>3. OpcodeAt(cart, x) = Opcode /\ Opcode \in Instruction /\ Opcode.kind \in Kind
    BY <1>2, OpcodeType, InstructionFields DEF OpcodeAt, Opcode, Code
  <1>4. /\ From(n) \in Nat /\ From(n) < W /\ goal \in {"none", "rti"} /\ Closed(cart, P, goal)
        /\ goal = "rti" => From(n) + 3 < W /\ \A y \in P : OpcodeAt(cart, y).kind # "txs"
        /\ goal = "none" => From(n) = W - 1
    BY DEF CodeFits
  <1>5. CASE Opcode.kind = "invalid"
    <2>1. Ignore(Opcode)
      BY <1>5 DEF Execute, Plain, DataOp, IndexOp, ReadStatus, WriteCtrl, BranchOnPlus,
                  BranchOnOther, Jump, Call, Return, ReturnFromInterrupt, Break, PushA, PushP,
                  PullA, PullP, TransferXToSP
    <2>2. pc' = pc /\ stk' = stk
      BY <2>1 DEF Ignore
    <2> QED
      BY <1>1, <1>2, <2>2 DEF Within, InCode
  <1>6. CASE Opcode.kind # "invalid" /\ Ends(cart, x, goal)
    <2>1. goal = "rti" /\ Opcode.kind = "rti" /\ x[2] = <<>>
      BY <1>3, <1>4, <1>6 DEF Ends, Kind
    <2>2. frames # <<>> /\ frames \in Seq(Context)
      BY <2>1 DEF CpuTypeOK
    <2>3. stk.sp = From(n)
      <3>1. Len(x[2]) = 0
        BY <2>1
      <3> QED
        BY <1>2, <1>4, <3>1 DEF Lies
    <2>4. n \in Nat \ {0} /\ frames[n].sp \in Byte
      <3>1. n \in Nat \ {0} /\ n \in 1 .. Len(frames)
        BY <2>2, EmptySeq
      <3>2. frames[n] \in Context
        BY <2>2, <3>1, ElementOfSeq
      <3> QED
        BY <3>1, <3>2 DEF Context
    <2>5. stk.sp = Down(frames[n].sp, 3)
      <3>1. From(n) = frames[n].sp - 3
        BY <2>4 DEF From
      <3>2. frames[n].sp >= 3
        BY <1>4, <2>4, <3>1 DEF Byte
      <3> QED
        BY <2>3, <3>1, <3>2 DEF Down
    <2>6. EndsHandler
      BY <2>2, <2>5 DEF EndsHandler
    <2>7. frames' = SubSeq(frames, 1, Len(frames) - 1)
      BY <2>1, <2>6, FramesStep
    <2>8. Len(frames') = Len(frames) - 1
      BY <2>2, <2>7, FrontOfSeq
    <2> QED
      BY <2>4, <2>8
  <1>7. CASE ~Ends(cart, x, goal)
    <2>1. /\ Pulls(Opcode.kind) <= Len(x[2]) /\ Moves(cart, x) \subseteq P
          /\ P \subseteq Position
      BY <1>3, <1>4, <1>7 DEF Closed
    <2>2. Opcode.kind # "invalid"
      BY <1>3, <1>7 DEF Ends
    <2>3. Opcode.kind = "txs" => From(n) = W - 1
      BY <1>3, <1>4
    <2>4. x \in Position
      BY <2>1
    <2>5. InCode(Moves(cart, x), pc', From(n), stk'.sp, stk'.mem)
      BY <1>2, <1>4, <2>1, <2>2, <2>3, <2>4, InstructionMoves
    <2> QED
      BY <1>1, <2>1, <2>5 DEF Within, InCode
  <1> QED
    BY <1>5, <1>6, <1>7

(* The codes interrupted are where they were, as long as the bytes above    *)
(* the stack pointer are.                                                   *)
LEMMA CodeWaits ==
    ASSUME NEW P, NEW goal, NEW n, CodeFits(P, goal, n), Within(P, n),
           NowPc(n)' = NowPc(n), NowSp(n)' = NowSp(n), From(n)' = From(n),
           \A c \in Cell : c > NowSp(n) => stk'.mem[c] = stk.mem[c]
    PROVE  Within(P, n)'
  <1>1. P \subseteq Position /\ From(n) \in Int /\ From(n) < W /\ NowSp(n) \in Int /\ NowSp(n) >= 0
    BY DEF CodeFits, Closed
  <1>2. InCode(P, NowPc(n), From(n), NowSp(n), stk.mem)
    BY DEF Within
  <1>3. P \in SUBSET Position
    BY <1>1
  <1> DEFINE a == NowPc(n)
             from == From(n)
             sp == NowSp(n)
  <1>4. InCode(P, a, from, sp, stk.mem) /\ \A c \in Cell : c > sp => stk'.mem[c] = stk.mem[c]
    BY <1>2
  <1>5. from \in Int /\ from < W /\ sp \in Int /\ sp >= 0
    BY <1>1
  <1>6. NowPc(n)' = a /\ NowSp(n)' = sp /\ From(n)' = from
    OBVIOUS
  <1> HIDE DEF a, from, sp
  <1>7. InCode(P, a, from, sp, stk'.mem)
    BY <1>3, <1>4, <1>5, InCodeKept
  <1> QED
    BY <1>6, <1>7 DEF Within, InCode

LEMMA DisciplineExecuted ==
    ASSUME CpuTypeOK, FramesKept, NEW main, NEW handler, NEW room \in Nat, NEW nest \in Nat,
           KeepsStack(cart, main[cart], handler[cart], room, nest),
           Disciplined(main, handler, room, nest), Finish
    PROVE  Disciplined(main, handler, room, nest)'
  <1> DEFINE l == Len(frames)
  <1>1. /\ todo = 1 /\ Execute(Opcode) /\ cart' = cart
        /\ frames \in Seq(Context) /\ l \in Nat /\ (frames # <<>> <=> l # 0)
        /\ stk.sp \in Byte
    BY LenProperties, EmptySeq DEF Finish, CpuTypeOK, StackType
  <1>2. StackHasRoom /\ HandlersBalanced
    BY DisciplineKeepsStack DEF StackKept
  <1>3. /\ CodeFits(main[cart], "none", 0) /\ Within(main[cart], 0) /\ l <= nest
        /\ \A n \in 1 .. l :
             /\ CodeFits(handler[cart], "rti", n) /\ Within(handler[cart], n)
             /\ frames[n].sp \in Byte
             /\ From(n) >= (nest - n) * (3 + room) + room
    BY CodesFit DEF Disciplined
  <1>4. \A c \in Cell : c > stk.sp => stk'.mem[c] = stk.mem[c]
    BY <1>1, <1>2, AboveSpKept
  <1>5. stk.mem[Top] = Hi(Program[cart].irq)
    BY DEF FramesKept
  <1>6. CASE frames' = frames
    <2>1. \A n \in 0 .. l : From(n)' = From(n)
      BY <1>6 DEF From
    <2>2. ASSUME NEW n \in 0 .. l, n # l
          PROVE  /\ NowPc(n)' = NowPc(n) /\ NowSp(n)' = NowSp(n)
                 /\ \A c \in Cell : c > NowSp(n) => stk'.mem[c] = stk.mem[c]
      <3>1. NowPc(n)' = NowPc(n) /\ NowSp(n)' = NowSp(n) /\ NowSp(n) = frames[n + 1].sp
        BY <1>6, <2>2 DEF NowPc, NowSp
      <3>2. n + 1 \in 1 .. l /\ l \in 1 .. l /\ frames # <<>>
        BY <1>1, <2>2
      <3>3. frames[l].sp \in Byte /\ frames[n + 1].sp \in Byte
        BY <1>3, <3>2
      <3>4. frames[l].sp <= frames[n + 1].sp
        <4>1. CASE n + 1 = l
          BY <3>3, <4>1 DEF Byte
        <4>2. CASE n + 1 < l
          BY <3>2, <4>2 DEF FramesKept
        <4> QED
          BY <1>1, <3>2, <4>1, <4>2
      <3>5. stk.sp + 3 <= frames[l].sp
        BY <1>2, <3>2 DEF HandlersBalanced
      <3>6. \A c \in Cell : c > NowSp(n) => c > stk.sp
        BY <1>1, <3>1, <3>3, <3>4, <3>5, WidthAssumption DEF Byte, Cell
      <3> QED
        BY <1>4, <3>1, <3>6
    <2>3. Within(main[cart], 0)'
      <3>1. CASE l = 0
        BY <1>1, <1>2, <1>3, <1>5, <1>6, <2>1, <3>1, CodeRuns
      <3>2. CASE l # 0
        BY <1>1, <1>3, <2>1, <2>2, <3>2, CodeWaits
      <3> QED
        BY <3>1, <3>2
    <2>4. ASSUME NEW n \in 1 .. l PROVE Within(handler[cart], n)'
      <3>1. n \in 0 .. l /\ l # 0 /\ frames # <<>> /\ From(n)' = From(n)
        BY <1>1, <2>1
      <3>2. CASE n = l
        BY <1>1, <1>2, <1>3, <1>5, <1>6, <3>1, <3>2, CodeRuns
      <3>3. CASE n # l
        <4>1. CodeFits(handler[cart], "rti", n) /\ Within(handler[cart], n)
          BY <1>3
        <4>2. /\ NowPc(n)' = NowPc(n) /\ NowSp(n)' = NowSp(n)
              /\ \A c \in Cell : c > NowSp(n) => stk'.mem[c] = stk.mem[c]
          BY <2>2, <3>1, <3>3
        <4> QED
          BY <1>1, <3>1, <4>1, <4>2, CodeWaits
      <3> QED
        BY <3>2, <3>3
    <2>5. \A n \in 1 .. l : From(n)' >= (nest - n) * (3 + room) + room
      BY <1>3, <2>1
    <2> HIDE DEF l
    <2>6. Len(frames') = l /\ Len(frames') <= nest
      BY <1>3, <1>6 DEF l
    <2> QED
      BY <1>1, <2>3, <2>4, <2>5, <2>6 DEF Disciplined, Within, From, NowPc, NowSp
  <1>7. CASE frames' # frames
    <2>1. /\ ReturnFromInterrupt(Opcode) /\ EndsHandler
          /\ frames' = SubSeq(frames, 1, l - 1)
      BY <1>1, <1>7, FramesStep
    <2>2. /\ frames # <<>> /\ stk'.mem = stk.mem
          /\ [pc |-> pc', p |-> p', sp |-> stk'.sp] = frames[l]
      BY <1>1, <1>2, <2>1, ReturnsToContext
    <2>3. pc' = frames[l].pc /\ stk'.sp = frames[l].sp
      BY <2>2
    <2>4. Len(frames') = l - 1 /\ \A k \in 1 .. l - 1 : frames'[k] = frames[k]
      BY <1>1, <2>1, <2>2, FrontOfSeq
    <2> HIDE DEF l
    <2>5. ASSUME NEW n \in 0 .. l - 1
          PROVE  /\ n # l /\ NowPc(n) = frames[n + 1].pc /\ NowSp(n) = frames[n + 1].sp
                 /\ NowPc(n)' = NowPc(n) /\ NowSp(n)' = NowSp(n) /\ From(n)' = From(n)
      <3>1. n # l
        BY <1>1
      <3>2. NowPc(n) = frames[n + 1].pc /\ NowSp(n) = frames[n + 1].sp
        BY <3>1 DEF NowPc, NowSp, l
      <3>3. NowPc(n)' = NowPc(n) /\ NowSp(n)' = NowSp(n)
        <4>1. CASE n = l - 1
          BY <1>1, <2>3, <2>4, <3>2, <4>1 DEF NowPc, NowSp
        <4>2. CASE n # l - 1
          <5>1. n + 1 \in 1 .. l - 1
            BY <1>1, <4>2
          <5> QED
            BY <2>4, <3>2, <4>2, <5>1 DEF NowPc, NowSp
        <4> QED
          BY <4>1, <4>2
      <3>4. From(n)' = From(n)
        <4>1. n # 0 => n \in 1 .. l - 1
          OBVIOUS
        <4> QED
          BY <2>4, <4>1 DEF From
      <3> QED
        BY <3>1, <3>2, <3>3, <3>4
    <2>6. 0 \in 0 .. l - 1 /\ \A n \in 1 .. l - 1 : n \in 0 .. l - 1 /\ n \in 1 .. l
      BY <1>1, <2>2
    <2>a. ASSUME NEW P, NEW goal, NEW n \in 0 .. l - 1, CodeFits(P, goal, n), Within(P, n)
          PROVE  Within(P, n)'
      <3>1. NowPc(n)' = NowPc(n) /\ NowSp(n)' = NowSp(n) /\ From(n)' = From(n)
        BY <2>5
      <3>2. \A c \in Cell : c > NowSp(n) => stk'.mem[c] = stk.mem[c]
        BY <2>2
      <3> QED
        BY <2>a, <3>1, <3>2, CodeWaits
    <2>7. Within(main[cart], 0)'
      BY <1>1, <1>3, <2>6, <2>a
    <2>8. ASSUME NEW n \in 1 .. l - 1
          PROVE  Within(handler[cart], n)' /\ From(n)' >= (nest - n) * (3 + room) + room
      <3>1. n \in 0 .. l - 1 /\ n \in 1 .. l
        BY <2>6
      <3>2. /\ CodeFits(handler[cart], "rti", n) /\ Within(handler[cart], n)
            /\ From(n) >= (nest - n) * (3 + room) + room
        BY <1>3, <3>1
      <3>3. From(n)' = From(n)
        BY <2>5, <3>1
      <3> QED
        BY <1>1, <2>a, <3>1, <3>2, <3>3
    <2>9. Len(frames') <= nest
      BY <1>1, <1>3, <2>4
    <2> QED
      BY <1>1, <2>4, <2>7, <2>8, <2>9 DEF Disciplined, Within, From, NowPc, NowSp
  <1> QED
    BY <1>6, <1>7

LEMMA ShortPush ==
    ASSUME CpuTypeOK, EnterHandler, stk.sp >= 3
    PROVE  stk'.sp = stk.sp - 3 /\ \A c \in Cell : c > stk.sp => stk'.mem[c] = stk.mem[c]
  <1> DEFINE mid == Push16(stk, pc)
  <1>1. stk \in StackType /\ pc \in Word /\ p \in Byte /\ stk.sp \in Int /\ stk' = Push(mid, p)
    BY DEF CpuTypeOK, StackType, Byte, EnterHandler
  <1>2. mid \in StackType /\ mid.sp = stk.sp - 2 /\ \A c \in Cell : c > stk.sp => mid.mem[c] = stk.mem[c]
    <2>1. stk.sp >= 2
      BY <1>1
    <2> QED
      BY <1>1, <2>1, Push16Type, Push16InPage
  <1> HIDE DEF mid
  <1>3. stk'.sp = mid.sp - 1 /\ \A c \in Cell : c > mid.sp => stk'.mem[c] = mid.mem[c]
    <2>1. mid.sp >= 1
      BY <1>1, <1>2
    <2> QED
      BY <1>1, <1>2, <2>1, PushInPage
  <1>4. \A c \in Cell : c > stk.sp => c > mid.sp
    BY <1>1, <1>2, WidthAssumption DEF Cell
  <1> QED
    BY <1>1, <1>2, <1>3, <1>4

(* An NMI finds the room that was reserved for it, and reserves that of the *)
(* NMIs that may still interrupt its handler.                               *)
LEMMA DisciplineInterrupted ==
    ASSUME CpuTypeOK, FramesKept, NEW main, NEW handler, NEW room \in Nat, NEW nest \in Nat,
           KeepsStack(cart, main[cart], handler[cart], room, nest),
           Disciplined(main, handler, room, nest), EnterHandler, Len(frames) < nest
    PROVE  stk.sp >= 3 /\ Disciplined(main, handler, room, nest)'
  <1> DEFINE l == Len(frames)
             f == [pc |-> pc, p |-> p, sp |-> stk.sp]
  <1>1. /\ frames \in Seq(Context) /\ l \in Nat /\ l < nest /\ stk.sp \in Byte
        /\ cart' = cart /\ pc' = Program[cart].nmi /\ frames' = Append(frames, f)
        /\ f \in Context
    BY LenProperties DEF CpuTypeOK, EnterHandler, StackType, Context
  <1>2. Len(frames') = l + 1 /\ frames'[l + 1] = f /\ \A n \in 1 .. l : frames'[n] = frames[n]
    BY <1>1
  <1>3. f.pc = pc /\ f.sp = stk.sp
    OBVIOUS
  <1> HIDE DEF f
  <1>4. /\ CodeFits(main[cart], "none", 0) /\ Within(main[cart], 0)
        /\ NowSp(0) >= nest * (3 + room)
        /\ \A n \in 1 .. l :
             /\ CodeFits(handler[cart], "rti", n) /\ Within(handler[cart], n)
             /\ NowSp(n) >= (nest - n) * (3 + room)
             /\ From(n) >= (nest - n) * (3 + room) + room
    BY CodesFit DEF Disciplined
  <1>5. StackHasRoom /\ HandlersBalanced
    BY DisciplineKeepsStack DEF StackKept
  <1>6. stk.sp >= (nest - l) * (3 + room)
    <2>1. NowSp(l) = stk.sp
      BY DEF NowSp
    <2>2. CASE l = 0
      BY <1>4, <2>1, <2>2
    <2>3. CASE l # 0
      <3>1. l \in 1 .. l
        BY <1>1, <2>3
      <3> QED
        BY <1>4, <2>1, <3>1
    <2> QED
      BY <2>2, <2>3
  <1> HIDE DEF l
  <1>7. stk.sp - 3 >= (nest - (l + 1)) * (3 + room) + room /\ stk.sp >= 3
    <2> DEFINE k == nest - l
               q == 3 + room
               r == (k - 1) * q
               t == k * q
    <2>1. k \in Nat /\ k >= 1 /\ q \in Nat /\ k - 1 = nest - (l + 1)
      BY <1>1
    <2>2. r \in Nat /\ t = r + q /\ stk.sp >= t
      <3> HIDE DEF k, q
      <3>1. r \in Nat /\ t = r + q
        BY <2>1, Reserve
      <3> QED
        BY <1>6, <3>1 DEF k, q
    <2> HIDE DEF r, t
    <2>3. stk.sp - 3 >= r + room /\ stk.sp >= 3
      BY <1>1, <2>2 DEF Byte
    <2>4. r = (nest - (l + 1)) * (3 + room)
      BY <2>1 DEF r
    <2> QED
      BY <2>3, <2>4
  <1>8. stk'.sp = stk.sp - 3 /\ \A c \in Cell : c > stk.sp => stk'.mem[c] = stk.mem[c]
    BY <1>7, ShortPush
  <1>9. ASSUME NEW n \in 0 .. l
        PROVE  /\ NowPc(n)' = NowPc(n) /\ NowSp(n)' = NowSp(n) /\ From(n)' = From(n)
               /\ \A c \in Cell : c > NowSp(n) => stk'.mem[c] = stk.mem[c]
    <2>1. n # l + 1
      BY <1>1
    <2>2. n = 0 \/ n \in 1 .. l
      BY <1>1
    <2>3. From(n)' = From(n)
      BY <1>2, <2>2 DEF From
    <2>4. NowPc(n)' = frames'[n + 1].pc /\ NowSp(n)' = frames'[n + 1].sp
      BY <1>2, <2>1 DEF NowPc, NowSp
    <2>5. CASE n = l
      <3>1. NowPc(n) = pc /\ NowSp(n) = stk.sp
        BY <2>5 DEF NowPc, NowSp, l
      <3> QED
        BY <1>2, <1>3, <1>8, <2>3, <2>4, <2>5, <3>1
    <2>6. CASE n # l
      <3>1. n + 1 \in 1 .. l /\ l \in 1 .. l
        BY <1>1, <2>6
      <3>2. NowPc(n) = frames[n + 1].pc /\ NowSp(n) = frames[n + 1].sp
        BY <2>6 DEF NowPc, NowSp, l
      <3>3. frames[n + 1] \in Context /\ frames[l] \in Context /\ frames # <<>>
        BY <1>1, <3>1, ElementOfSeq, EmptySeq DEF l
      <3>4. frames[n + 1].sp \in Byte /\ frames[l].sp \in Byte
        BY <3>3 DEF Context
      <3>5. stk.sp + 3 <= frames[l].sp
        BY <1>5, <3>3 DEF HandlersBalanced, l
      <3>6. frames[l].sp <= frames[n + 1].sp
        <4>1. n + 1 = l \/ n + 1 < l
          BY <1>1, <3>1
        <4> QED
          BY <3>1, <3>4, <4>1 DEF FramesKept, Byte, l
      <3>7. NowSp(n) \in Int /\ stk.sp \in Int /\ NowSp(n) > stk.sp
        BY <1>1, <3>2, <3>4, <3>5, <3>6 DEF Byte
      <3>8. \A c \in Cell : c > NowSp(n) => c > stk.sp
        BY <3>7, WidthAssumption DEF Cell
      <3> QED
        BY <1>2, <1>8, <2>3, <2>4, <3>1, <3>2, <3>8
    <2> QED
      BY <2>5, <2>6
  <1>10. ASSUME NEW P, NEW goal, NEW n \in 0 .. l, CodeFits(P, goal, n), Within(P, n)
         PROVE  Within(P, n)'
    BY <1>9, <1>10, CodeWaits
  <1>11. 0 \in 0 .. l /\ \A n \in 1 .. l : n \in 0 .. l
    BY <1>1
  <1>12. Within(main[cart], 0)'
    BY <1>1, <1>4, <1>10, <1>11
  <1>13. ASSUME NEW n \in 1 .. l
         PROVE  Within(handler[cart], n)' /\ From(n)' >= (nest - n) * (3 + room) + room
    <2>1. n \in 0 .. l
      BY <1>11
    <2>2. /\ CodeFits(handler[cart], "rti", n) /\ Within(handler[cart], n)
          /\ From(n) >= (nest - n) * (3 + room) + room
      BY <1>4
    <2>3. From(n)' = From(n)
      BY <1>9, <2>1
    <2> QED
      BY <1>1, <1>10, <2>1, <2>2, <2>3
  <1>14. ASSUME NEW m, m = l + 1
         PROVE  Within(handler[cart], m)' /\ From(m)' >= (nest - m) * (3 + room) + room
    <2> DEFINE x == FromNmi(cart)
               sp == stk.sp - 3
    <2>1. From(m)' = sp /\ NowPc(m)' = Program[cart].nmi /\ NowSp(m)' = sp
      <3>1. m # 0 /\ m = Len(frames') /\ frames'[m] = f
        BY <1>1, <1>2, <1>14
      <3> QED
        BY <1>1, <1>3, <1>8, <3>1 DEF From, NowPc, NowSp
    <2>2. x \in handler[cart] /\ x[1] = Program[cart].nmi /\ x[2] = <<>>
      BY DEF KeepsStack, FromNmi
    <2>3. From(m)' >= (nest - m) * (3 + room) + room
      BY <1>7, <1>14, <2>1
    <2> HIDE DEF x
    <2>4. Len(x[2]) = 0 /\ 1 .. Len(x[2]) = {} /\ sp = sp - Len(x[2])
      BY <1>1, <2>2 DEF Byte
    <2> HIDE DEF sp
    <2>5. Lies(x[2], sp, sp, stk'.mem)
      BY <2>4 DEF Lies
    <2>6. InCode(handler[cart], NowPc(m)', From(m)', NowSp(m)', stk'.mem)
      BY <2>1, <2>2, <2>5 DEF InCode
    <2>7. Within(handler[cart], m)'
      BY <1>1, <2>6 DEF Within
    <2> QED
      BY <2>3, <2>7
  <1>17. ASSUME NEW n \in 1 .. Len(frames')
         PROVE  Within(handler[cart], n)' /\ From(n)' >= (nest - n) * (3 + room) + room
    <2>1. n = l + 1 \/ n \in 1 .. l
      BY <1>1, <1>2
    <2> QED
      BY <1>13, <1>14, <2>1
  <1>18. Len(frames') <= nest
    BY <1>1, <1>2
  <1> QED
    BY <1>7, <1>12, <1>17, <1>18 DEF Disciplined

(* trigger_nmi, and no instruction, makes the list of frames longer.        *)
LEMMA EnterGrows ==
    ASSUME CpuTypeOK, EnterHandler
    PROVE  frames' # frames /\ ~Finish
  <1>1. frames \in Seq(Context) /\ [pc |-> pc, p |-> p, sp |-> stk.sp] \in Context
    BY DEF CpuTypeOK, StackType, Context
  <1>2. Len(frames') = Len(frames) + 1 /\ Len(frames) \in Nat
    BY <1>1 DEF EnterHandler
  <1>3. frames' # frames
    BY <1>2
  <1>4. ~Finish
    <2> SUFFICES ASSUME Finish PROVE FALSE
      OBVIOUS
    <2>1. frames' = SubSeq(frames, 1, Len(frames) - 1) /\ frames # <<>>
      BY <1>3, FramesStep DEF Finish, EndsHandler
    <2>2. Len(frames') = Len(frames) - 1
      BY <1>1, <2>1, FrontOfSeq
    <2> QED
      BY <1>2, <2>2
  <1> QED
    BY <1>3, <1>4

(* Of the CPU's steps only TriggerNmi is one.                               *)
LEMMA StepEnters ==
    ASSUME CpuTypeOK, [CpuNext]_cpuVars, EnterHandler
    PROVE  Len(frames) < MaxNest
  BY EnterGrows, Zenon DEF CpuNext, Cycle, Fetch, Wait, Throw, SetVBlank, cpuVars

(* A step of any client that has no more NMIs in the handlers of others     *)
(* than the certificates allow.                                             *)
LEMMA DisciplineNext ==
    ASSUME CpuTypeOK, FramesKept, NEW main, NEW handler, NEW room \in Nat, NEW nest \in Nat,
           \A c \in Cartridge : KeepsStack(c, main[c], handler[c], room, nest),
           Disciplined(main, handler, room, nest),
           ProgramStep, EnterHandler => Len(frames) < nest
    PROVE  Disciplined(main, handler, room, nest)'
  <1>1. KeepsStack(cart, main[cart], handler[cart], room, nest)
    BY DEF CpuTypeOK
  <1>2. CASE Finish
    BY <1>1, <1>2, DisciplineExecuted
  <1>3. CASE EnterHandler
    BY <1>1, <1>3, DisciplineInterrupted
  <1>4. CASE UNCHANGED <<cart, pc, p, stk, frames>>
    BY <1>4 DEF Disciplined, Within, From, NowPc, NowSp
  <1> QED
    BY <1>2, <1>3, <1>4 DEF ProgramStep

(* A program with certificates keeps its stack, whenever its NMIs come: by  *)
(* induction on Disciplined.                                                *)
THEOREM StackAlwaysKept ==
    ASSUME NEW CONSTANT main, NEW CONSTANT handler, NEW CONSTANT room \in Nat,
           \A c \in Cartridge : KeepsStack(c, main[c], handler[c], room, MaxNest)
    PROVE  CpuSpec => []StackKept
  <1> DEFINE Inv == Disciplined(main, handler, room, MaxNest)
  <1>1. CpuTypeOK /\ CpuInit => Inv
    BY DisciplineInit, ProgramAssumption DEF CpuTypeOK
  <1>2. CpuTypeOK /\ Inv => StackKept
    BY DisciplineKeepsStack, ProgramAssumption DEF CpuTypeOK
  <1>3. CpuTypeOK /\ FramesKept /\ Inv /\ [CpuNext]_cpuVars => Inv'
    <2> SUFFICES ASSUME CpuTypeOK, FramesKept, Inv, [CpuNext]_cpuVars PROVE Inv'
      OBVIOUS
    <2>1. ProgramStep
      BY CpuStepIsProgramStep
    <2>2. EnterHandler => Len(frames) < MaxNest
      BY StepEnters
    <2> QED
      BY <2>1, <2>2, DisciplineNext, ProgramAssumption
  <1>4. CpuTypeOK /\ StackKept /\ StackKept' /\ FramesKept /\ [CpuNext]_cpuVars => FramesKept'
    BY CpuStepIsProgramStep, FramesNext
  <1> HIDE DEF Inv
  <1> QED
    BY <1>1, <1>2, <1>3, <1>4, FramesInit, CpuTyped, PTL DEF CpuSpec

(* So its handlers return, and it runs as if there were no interrupts.      *)
THEOREM CertifiedProgramsRun ==
    ASSUME NEW CONSTANT main, NEW CONSTANT handler, NEW CONSTANT room \in Nat,
           \A c \in Cartridge : KeepsStack(c, main[c], handler[c], room, MaxNest)
    PROVE  CpuSpec => HandlerReturnsToContext /\ Uninterrupted
  <1>1. CpuSpec => []StackKept
    BY StackAlwaysKept
  <1> QED
    BY <1>1, HandlersReturn, NmisAreTransparent, PTL
=============================================================================
