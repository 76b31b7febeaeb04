--------------------------- MODULE ConsoleProofs ---------------------------
(***************************************************************************)
(* The main loop uses the CPU only through cycle(), trigger_nmi() and the  *)
(* vblank flag: whatever is proved of the CPU under any client holds of it *)
(* in the console, for every cartridge and every frame length.             *)
(***************************************************************************)
EXTENDS Console, CpuProofs

LEMMA StepIsCpuStep == [Next]_consoleVars => [CpuNext]_cpuVars
  <1> SUFFICES ASSUME [Next]_consoleVars PROVE [CpuNext]_cpuVars
    OBVIOUS
  <1>1. CASE Run
    BY <1>1 DEF Run, CpuNext
  <1>2. CASE Crash
    BY <1>2 DEF Crash, CpuNext
  <1>3. CASE Render
    BY <1>3 DEF Render, CpuNext
  <1>4. CASE Close
    BY <1>4 DEF Close, CpuNext
  <1>5. CASE Interrupt
    <2>1. CASE HasPpu /\ nmiOn
      BY <1>5, <2>1 DEF Interrupt, CpuNext
    <2>2. CASE ~(HasPpu /\ nmiOn)
      BY <1>5, <2>2 DEF Interrupt
    <2> QED
      BY <2>1, <2>2
  <1>6. CASE Stopped \/ UNCHANGED consoleVars
    BY <1>6 DEF Stopped, consoleVars, cpuVars
  <1> QED
    BY <1>1, <1>2, <1>3, <1>4, <1>5, <1>6 DEF Next

(* begin_cpu_loop and advance_frame are clients of the CPU as Cpu describes *)
(* them: each of their steps is one of its steps, or leaves it alone.       *)
THEOREM ConsoleImplementsCpu == Spec => CpuSpec
  <1>1. Init => CpuInit
    BY DEF Init
  <1> QED
    BY <1>1, StepIsCpuStep, PTL DEF Spec, CpuSpec

LEMMA ConsoleInitType == Init => ConsoleTypeOK
  BY InitType, CyclesAssumption, Zenon DEF Init, ConsoleTypeOK, Phase

LEMMA ConsoleNextType == ConsoleTypeOK /\ [Next]_consoleVars => ConsoleTypeOK'
  <1> SUFFICES ASSUME ConsoleTypeOK, [Next]_consoleVars PROVE ConsoleTypeOK'
    OBVIOUS
  <1>1. CpuTypeOK'
    BY StepIsCpuStep, CpuNextType DEF ConsoleTypeOK
  <1>2. phase' \in Phase /\ left' \in Nat
    BY CyclesAssumption
       DEF ConsoleTypeOK, Phase, Next, consoleVars, Run, Running, Crash, Render, Close,
           Interrupt, Stopped
  <1>3. configured' \in BOOLEAN
    <2>1. CASE Run
      BY <2>1, Zenon DEF Run
    <2>2. CASE ~Run
      BY <2>2, Zenon
         DEF ConsoleTypeOK, Next, consoleVars, Crash, Render, Close, Interrupt, Stopped
    <2> QED
      BY <2>1, <2>2
  <1> QED
    BY <1>1, <1>2, <1>3 DEF ConsoleTypeOK

(* The console's cycle counts never run below zero.                         *)
THEOREM ConsoleTyped == Spec => []ConsoleTypeOK
  BY ConsoleInitType, ConsoleNextType, PTL DEF Spec

(* A program that keeps its stack runs in the main loop as if the frames'   *)
(* NMIs did not exist, and each of their handlers returns to it.            *)
THEOREM ConsoleIsTransparent ==
    Spec /\ []StackKept => Uninterrupted /\ HandlerReturnsToContext
  BY ConsoleImplementsCpu, NmisAreTransparent, HandlersReturn

-----------------------------------------------------------------------------
(* Timing.  At position x, with t cycles of its instruction to run (none if *)
(* it has not begun), the stretch that rank is about ends within r cycles.  *)
Timely(c, rank, goal, x, t, r) ==
    IF t = 0 THEN rank[x] <= r
    ELSE /\ t <= r
         /\ OpcodeAt(c, x).kind = "invalid" => t + rank[x] <= r
         /\ ~Ends(c, x, goal) => \A y \in Moves(c, x) : t + rank[y] <= r

\* The code whose bytes begin at the cell `from` is at such a position.
OnTime(c, rank, goal, a, from, sp, mem, t, r) ==
    \E x \in DOMAIN rank :
        /\ x[1] = a
        /\ Lies(x[2], from, sp, mem)
        /\ Timely(c, rank, goal, x, t, r)

LEMMA RanksPositive ==
    ASSUME NEW c \in Cartridge, NEW rank, NEW goal, Bounds(c, rank, goal), NEW x \in DOMAIN rank
    PROVE  LET op == OpcodeAt(c, x)
           IN  /\ x \in Position /\ x[2] \in Seq(SUBSET Byte)
               /\ op \in Instruction /\ MostCycles(op) \in Nat
               /\ op.cycles \in 2 .. 7 /\ MostCycles(op) >= op.cycles
               /\ rank[x] \in Nat /\ rank[x] >= MostCycles(op) /\ rank[x] >= 2
               /\ ~Ends(c, x, goal) =>
                    \A y \in Moves(c, x) :
                       y \in DOMAIN rank /\ rank[y] \in Nat /\ rank[x] >= MostCycles(op) + rank[y]
  <1> DEFINE op == OpcodeAt(c, x)
  <1>1. x \in Position /\ rank \in [DOMAIN rank -> Nat]
    BY DEF Bounds, Closed
  <1>2. x[1] \in Word /\ x[2] \in Seq(SUBSET Byte)
    BY <1>1 DEF Position
  <1>3. op \in Instruction
    BY <1>2, ProgramAssumption DEF OpcodeAt
  <1>4. op.cycles \in 2 .. 7 /\ op.indexed \in BOOLEAN
    BY <1>3, InstructionFields
  <1>5. /\ rank[x] >= MostCycles(op)
        /\ ~Ends(c, x, goal) => \A y \in Moves(c, x) : rank[x] >= MostCycles(op) + rank[y]
    BY DEF Bounds
  <1>6. ~Ends(c, x, goal) => Moves(c, x) \subseteq DOMAIN rank
    BY DEF Bounds, Closed
  <1> HIDE DEF op
  <1>7. MostCycles(op) \in Nat /\ MostCycles(op) >= op.cycles
    BY <1>4 DEF MostCycles
  <1>8. rank[x] \in Nat /\ rank[x] >= 2
    BY <1>1, <1>4, <1>5, <1>7
  <1>9. ~Ends(c, x, goal) =>
          \A y \in Moves(c, x) :
             y \in DOMAIN rank /\ rank[y] \in Nat /\ rank[x] >= MostCycles(op) + rank[y]
    BY <1>1, <1>5, <1>6
  <1> QED
    BY <1>1, <1>2, <1>3, <1>4, <1>5, <1>7, <1>8, <1>9 DEF op

(* What has cycles left is not out of time.                                 *)
LEMMA NotDue ==
    ASSUME NEW c \in Cartridge, NEW rank, NEW goal, Bounds(c, rank, goal),
           NEW x \in DOMAIN rank, NEW t \in Nat, NEW r, Timely(c, rank, goal, x, t, r)
    PROVE  r # 0
  <1>1. rank[x] \in Nat /\ rank[x] >= 2
    BY RanksPositive
  <1>2. IF t = 0 THEN rank[x] <= r ELSE t <= r
    BY DEF Timely
  <1> QED
    BY <1>1, <1>2

(* A cycle takes one from what is left, until the stretch has ended.        *)
LEMMA TimelyNext ==
    ASSUME CpuTypeOK, Cycle, NEW rank, NEW goal, Bounds(cart, rank, goal),
           NEW x \in DOMAIN rank, x[1] = pc, NEW r \in Nat,
           Timely(cart, rank, goal, x, todo, r)
    PROVE  /\ todo # 1 => Timely(cart, rank, goal, x, todo', r - 1)
           /\ todo = 1 /\ Opcode.kind = "invalid" => Timely(cart, rank, goal, x, 0, r - 1)
           /\ todo = 1 /\ ~Ends(cart, x, goal) =>
                \A y \in Moves(cart, x) : Timely(cart, rank, goal, y, 0, r - 1)
  <1> DEFINE op == OpcodeAt(cart, x)
  <1>1. Opcode = op /\ cart \in Cartridge /\ todo \in Nat
    BY DEF Opcode, Code, OpcodeAt, CpuTypeOK
  <1>2. /\ op \in Instruction /\ MostCycles(op) \in Nat
        /\ op.cycles \in 2 .. 7 /\ MostCycles(op) >= op.cycles
        /\ rank[x] \in Nat /\ rank[x] >= MostCycles(op)
        /\ ~Ends(cart, x, goal) =>
             \A y \in Moves(cart, x) :
                y \in DOMAIN rank /\ rank[y] \in Nat /\ rank[x] >= MostCycles(op) + rank[y]
    BY <1>1, RanksPositive
  <1>3. IF todo = 0 THEN rank[x] <= r
        ELSE /\ todo <= r
             /\ op.kind = "invalid" => todo + rank[x] <= r
             /\ ~Ends(cart, x, goal) => \A y \in Moves(cart, x) : todo + rank[y] <= r
    BY DEF Timely
  <1> HIDE DEF op
  <1>4. CASE Fetch
    <2>1. CycleCount(Opcode) <= MostCycles(op) /\ CycleCount(Opcode) >= 2
          /\ CycleCount(Opcode) \in Nat
      BY <1>1, <1>2 DEF CycleCount, MostCycles
    <2>2. todo = 0 /\ todo' = CycleCount(Opcode) - 1 /\ op.kind # "invalid"
      BY <1>1, <1>4 DEF Fetch
    <2>3. todo' \in Nat /\ todo' # 0 /\ todo' + 1 <= MostCycles(op)
      BY <1>2, <2>1, <2>2
    <2>4. todo' <= r - 1
      BY <1>2, <1>3, <2>2, <2>3
    <2>5. ASSUME ~Ends(cart, x, goal), NEW y \in Moves(cart, x) PROVE todo' + rank[y] <= r - 1
      <3>1. rank[y] \in Nat /\ rank[x] >= MostCycles(op) + rank[y]
        BY <1>2, <2>5
      <3> QED
        BY <1>2, <1>3, <2>2, <2>3, <3>1
    <2>6. Timely(cart, rank, goal, x, todo', r - 1)
      BY <2>2, <2>3, <2>4, <2>5 DEF Timely, op
    <2> QED
      BY <2>2, <2>6
  <1>5. CASE Wait
    <2>1. todo > 1 /\ todo' = todo - 1
      BY <1>5 DEF Wait
    <2>2. todo' # 0 /\ todo' \in Nat /\ todo # 0 /\ todo # 1
      BY <1>1, <2>1
    <2>3. todo' <= r - 1 /\ (op.kind = "invalid" => todo' + rank[x] <= r - 1)
      BY <1>1, <1>2, <1>3, <2>1, <2>2
    <2>4. ASSUME ~Ends(cart, x, goal), NEW y \in Moves(cart, x) PROVE todo' + rank[y] <= r - 1
      <3>1. rank[y] \in Nat /\ todo + rank[y] <= r
        BY <1>2, <1>3, <2>2, <2>4
      <3> QED
        BY <1>1, <2>1, <3>1
    <2>5. Timely(cart, rank, goal, x, todo', r - 1)
      BY <2>2, <2>3, <2>4 DEF Timely, op
    <2> QED
      BY <2>2, <2>5
  <1>6. CASE Finish
    <2>1. todo = 1
      BY <1>6 DEF Finish
    <2>2. op.kind = "invalid" => rank[x] <= r - 1
      BY <1>2, <1>3, <2>1
    <2>3. ASSUME ~Ends(cart, x, goal), NEW y \in Moves(cart, x) PROVE rank[y] <= r - 1
      <3>1. rank[y] \in Nat /\ 1 + rank[y] <= r
        BY <1>2, <1>3, <2>1, <2>3
      <3> QED
        BY <3>1
    <2> QED
      BY <1>1, <2>1, <2>2, <2>3 DEF Timely
  <1> QED
    BY <1>4, <1>5, <1>6 DEF Cycle

(* So the code remains on time, or has just executed the instruction it was *)
(* to come to.                                                              *)
LEMMA OnTimeNext ==
    ASSUME CpuTypeOK, Cycle, StackHasRoom, stk.mem[Top] = Hi(Program[cart].irq),
           NEW rank, NEW goal, Bounds(cart, rank, goal),
           NEW from \in Int, from < W,
           from = W - 1 \/ \A x \in DOMAIN rank : OpcodeAt(cart, x).kind # "txs",
           NEW r \in Nat,
           OnTime(cart, rank, goal, pc, from, stk.sp, stk.mem, todo, r)
    PROVE  \/ /\ todo = 1 /\ Execute(Opcode) /\ Opcode.kind = goal
              /\ goal = "rti" => stk.sp = from
           \/ OnTime(cart, rank, goal, pc', from, stk'.sp, stk'.mem, todo', r - 1)
  <1>1. PICK x \in DOMAIN rank :
               /\ x[1] = pc /\ Lies(x[2], from, stk.sp, stk.mem)
               /\ Timely(cart, rank, goal, x, todo, r)
    BY DEF OnTime
  <1>2. cart \in Cartridge /\ Opcode = OpcodeAt(cart, x)
    BY <1>1 DEF CpuTypeOK, Opcode, Code, OpcodeAt
  <1>3. /\ todo # 1 => Timely(cart, rank, goal, x, todo', r - 1)
        /\ todo = 1 /\ Opcode.kind = "invalid" => Timely(cart, rank, goal, x, 0, r - 1)
        /\ todo = 1 /\ ~Ends(cart, x, goal) =>
             \A y \in Moves(cart, x) : Timely(cart, rank, goal, y, 0, r - 1)
    BY <1>1, TimelyNext
  <1>4. CASE todo # 1
    <2>1. pc' = pc /\ stk' = stk
      BY <1>4 DEF Cycle, Fetch, Wait, Finish
    <2> QED
      BY <1>1, <1>3, <1>4, <2>1 DEF OnTime
  <1>5. CASE todo = 1
    <2>1. Execute(Opcode) /\ todo' = 0 /\ cart' = cart
      BY <1>5 DEF Cycle, Fetch, Wait, Finish
    <2>2. CASE Opcode.kind = "invalid"
      <3>1. pc' = pc /\ stk' = stk
        BY <2>1, <2>2
           DEF Execute, Plain, DataOp, IndexOp, ReadStatus, WriteCtrl, BranchOnPlus,
               BranchOnOther, Jump, Call, Return, ReturnFromInterrupt, Break, PushA, PushP,
               PullA, PullP, TransferXToSP, Ignore
      <3> QED
        BY <1>1, <1>3, <1>5, <2>1, <2>2, <3>1 DEF OnTime
    <2>3. CASE Opcode.kind # "invalid" /\ Ends(cart, x, goal)
      <3>1. Opcode.kind = goal /\ (goal = "rti" => x[2] = <<>>)
        BY <1>2, <2>3 DEF Ends
      <3>2. goal = "rti" => stk.sp = from
        <4>1. x[2] = <<>> => Len(x[2]) = 0
          OBVIOUS
        <4> QED
          BY <1>1, <3>1, <4>1 DEF Lies
      <3> QED
        BY <1>5, <2>1, <3>1, <3>2
    <2>4. CASE Opcode.kind # "invalid" /\ ~Ends(cart, x, goal)
      <3>1. /\ Pulls(Opcode.kind) <= Len(x[2]) /\ Moves(cart, x) \subseteq DOMAIN rank
            /\ x \in Position
        BY <1>2, <2>4 DEF Bounds, Closed
      <3>2. Opcode.kind = "txs" => from = W - 1
        BY <1>2
      <3>3. InCode(Moves(cart, x), pc', from, stk'.sp, stk'.mem)
        BY <1>1, <1>5, <2>1, <2>4, <3>1, <3>2, InstructionMoves
      <3> QED
        BY <1>3, <1>5, <2>1, <2>4, <3>1, <3>3 DEF InCode, OnTime
    <2> QED
      BY <2>2, <2>3, <2>4
  <1> QED
    BY <1>4, <1>5

(* The cycles that run before the next NMI is due.                          *)
UntilNmi == IF phase = "visible" THEN left ELSE left + RenderCycles

LEMMA UntilNmiType == ConsoleTypeOK => UntilNmi \in Nat
  BY CyclesAssumption DEF ConsoleTypeOK, UntilNmi

LEMMA UntilNmiFalls ==
    ASSUME ConsoleTypeOK, Run
    PROVE  UntilNmi' = UntilNmi - 1 /\ UntilNmi' \in Nat
  BY CyclesAssumption DEF ConsoleTypeOK, UntilNmi, Run, Running

(* A program that has not written PPUCTRL is still on its way to do so.     *)
OnItsWay(rank) ==
    ~configured /\ phase # "stopped"
      => /\ frames = <<>>
         /\ phase \in {"warmup", "visible"}
         /\ stk.mem[Top] = Hi(Program[cart].irq)
         /\ OnTime(cart, rank[cart], "ctrl", pc, W - 1, stk.sp, stk.mem, todo, UntilNmi)

LEMMA StartsInTime ==
    ASSUME NEW rank, \A c \in Cartridge : AsksInTime(c, rank[c]), Init
    PROVE  OnItsWay(rank)
  <1> DEFINE x == FromReset(cart)
  <1>1. /\ cart \in Cartridge /\ pc = Program[cart].reset /\ todo = 0 /\ frames = <<>>
        /\ phase = "warmup" /\ UntilNmi = WarmupCycles + RenderCycles
        /\ stk.mem[Top] = Hi(Program[cart].irq)
    BY WidthAssumption DEF Init, CpuInit, UntilNmi, Top, Cell
  <1>2. /\ x \in DOMAIN rank[cart] /\ rank[cart][x] <= WarmupCycles + RenderCycles
        /\ x[1] = pc /\ x[2] = <<{0}, {0}>>
    BY <1>1 DEF AsksInTime, FromReset
  <1>3. Lies(<<{0}, {0}>>, W - 1, stk.sp, stk.mem)
    BY StartLies DEF Init
  <1> HIDE DEF x
  <1>4. OnTime(cart, rank[cart], "ctrl", pc, W - 1, stk.sp, stk.mem, todo, UntilNmi)
    BY <1>1, <1>2, <1>3 DEF OnTime, Timely
  <1> QED
    BY <1>1, <1>4 DEF OnItsWay

LEMMA StaysOnItsWay ==
    ASSUME NEW rank, \A c \in Cartridge : AsksInTime(c, rank[c]),
           ConsoleTypeOK, NmiOnlyWhenAsked, OnItsWay(rank), [Next]_consoleVars
    PROVE  NmiOnlyWhenAsked' /\ OnItsWay(rank)'
  <1>1. /\ CpuTypeOK /\ cart \in Cartridge /\ todo \in Nat
        /\ stk \in StackType /\ stk.sp \in Byte
    BY DEF ConsoleTypeOK, CpuTypeOK, StackType
  <1>2. Bounds(cart, rank[cart], "ctrl")
    BY <1>1 DEF AsksInTime
  <1>3. CASE Run
    <2>1. /\ Cycle /\ cart' = cart /\ phase' = phase /\ phase # "stopped"
          /\ configured' = (configured \/ (todo = 1 /\ Opcode.kind = "ctrl"))
      BY <1>3 DEF Run, Running, Cycle, Fetch, Wait, Finish
    <2>2. frames = <<>> => frames' = <<>>
      BY <2>1, FramesStep DEF Cycle, Fetch, Wait, Finish, EndsHandler
    <2>3. CASE configured'
      BY <2>3 DEF OnItsWay, NmiOnlyWhenAsked
    <2>4. CASE ~configured'
      <3> DEFINE P == DOMAIN rank[cart]
      <3>1. ~configured /\ ~(todo = 1 /\ Opcode.kind = "ctrl")
        BY <2>1, <2>4
      <3>2. /\ frames = <<>> /\ phase \in {"warmup", "visible"}
            /\ stk.mem[Top] = Hi(Program[cart].irq)
            /\ OnTime(cart, rank[cart], "ctrl", pc, W - 1, stk.sp, stk.mem, todo, UntilNmi)
        BY <2>1, <3>1 DEF OnItsWay
      <3>3. StackHasRoom
        <4>1. PICK x \in P : x[1] = pc /\ Lies(x[2], W - 1, stk.sp, stk.mem)
          BY <3>2 DEF OnTime
        <4>2. Closed(cart, P, "ctrl") /\ P \subseteq Position /\ \A y \in P : Len(y[2]) < W
          BY <1>2 DEF Bounds, Closed
        <4>3. ASSUME NEW y \in P PROVE Len(y[2]) <= W - 1
          <5>1. Len(y[2]) \in Nat /\ Len(y[2]) < W
            BY <4>2, ShapeLength DEF Position
          <5> QED
            BY <5>1, WidthAssumption
        <4>4. W - 1 \in Int /\ W - 1 < W
          BY WidthAssumption
        <4> HIDE DEF P
        <4> QED
          BY <1>1, <4>1, <4>2, <4>3, <4>4, RoomInCode
      <3>4. stk'.mem[Top] = stk.mem[Top]
        <4>1. CASE Finish
          <5>1. Execute(Opcode) /\ todo = 1
            BY <4>1 DEF Finish
          <5>2. Top \in Cell /\ Top > stk.sp
            BY <1>1, WidthAssumption DEF Top, Cell, Byte
          <5> QED
            BY <1>1, <3>3, <5>1, <5>2, AboveSpKept
        <4>2. CASE Fetch \/ Wait
          BY <4>2 DEF Fetch, Wait
        <4> QED
          BY <2>1, <4>1, <4>2 DEF Cycle
      <3>5. W - 1 \in Int /\ W - 1 < W
        BY WidthAssumption
      <3>6. OnTime(cart, rank[cart], "ctrl", pc', W - 1, stk'.sp, stk'.mem, todo', UntilNmi - 1)
        BY <1>1, <1>2, <2>1, <3>1, <3>2, <3>3, <3>5, OnTimeNext, UntilNmiType
      <3>7. OnTime(cart, rank[cart], "ctrl", pc, W - 1, stk.sp, stk.mem, todo, UntilNmi)'
        BY <1>3, <2>1, <3>6, UntilNmiFalls DEF OnTime, Timely
      <3> QED
        BY <2>1, <2>2, <3>2, <3>4, <3>7 DEF OnItsWay, NmiOnlyWhenAsked
    <2> QED
      BY <2>3, <2>4
  <1>4. CASE Crash \/ Close
    BY <1>4 DEF Crash, Close, Throw, SetVBlank, cpuVars, OnItsWay, NmiOnlyWhenAsked
  <1>5. CASE Render
    <2>1. /\ phase \in {"warmup", "vblank"} /\ left = 0 /\ phase' = "visible"
          /\ left' = RenderCycles
          /\ UNCHANGED <<cart, pc, stk, todo, frames, configured>>
      BY <1>5 DEF Render, FrameStarts, SetVBlank, cpuVars
    <2>2. UntilNmi' = UntilNmi
      BY <2>1, CyclesAssumption DEF UntilNmi
    <2> QED
      BY <2>1, <2>2 DEF OnItsWay, NmiOnlyWhenAsked, OnTime, Timely
  <1>6. CASE Interrupt
    <2>1. phase = "visible" /\ UntilNmi = 0 /\ configured' = configured
      BY <1>6 DEF Interrupt, UntilNmi
    <2>2. configured
      BY <1>1, <1>2, <2>1, NotDue DEF OnItsWay, OnTime
    <2> QED
      BY <2>1, <2>2 DEF OnItsWay, NmiOnlyWhenAsked
  <1>7. CASE Stopped \/ UNCHANGED consoleVars
    BY <1>7 DEF Stopped, consoleVars, OnItsWay, NmiOnlyWhenAsked, UntilNmi, OnTime, Timely
  <1> QED
    BY <1>3, <1>4, <1>5, <1>6, <1>7 DEF Next

(* Whatever the cartridges and the length of a frame: programs that come    *)
(* from their reset, calls and pushes included, to a write of PPUCTRL       *)
(* before the first NMI is due, as their certificates say, take no NMI they *)
(* have not asked for, although PPUCTRL_ is garbage until then.             *)
THEOREM NmisOnlyWhenAsked ==
    ASSUME NEW CONSTANT rank, \A c \in Cartridge : AsksInTime(c, rank[c])
    PROVE  Spec => []NmiOnlyWhenAsked
  <1>1. Init => NmiOnlyWhenAsked /\ OnItsWay(rank)
    BY StartsInTime DEF Init, CpuInit, NmiOnlyWhenAsked
  <1>2. /\ ConsoleTypeOK /\ NmiOnlyWhenAsked /\ OnItsWay(rank) /\ [Next]_consoleVars
        => NmiOnlyWhenAsked' /\ OnItsWay(rank)'
    BY StaysOnItsWay
  <1> QED
    BY <1>1, <1>2, ConsoleTyped, PTL DEF Spec

-----------------------------------------------------------------------------
(* A handler that has not returned is on its way to its RTI.                *)
Returning(rank) ==
    frames # <<>> /\ phase # "stopped"
      => /\ phase \in {"visible", "vblank"}
         /\ OnTime(cart, rank[cart], "rti", pc, frames[1].sp - 3, stk.sp, stk.mem, todo, UntilNmi)

\* The code of the handlers that rank is about.
Handlers(rank) == [c \in Cartridge |-> DOMAIN rank[c]]

(* trigger_nmi where no handler runs: the handler has all of the cycles     *)
(* until the next NMI, save the last of the instruction it cut short.       *)
LEMMA EntersInTime ==
    ASSUME CpuTypeOK, EnterHandler, stk.sp >= 3, frames = <<>>,
           NEW rank, NEW main, NEW room, HandlerFits(cart, main, rank, room),
           NEW r \in Nat, r = VBlankCycles + RenderCycles
    PROVE  OnTime(cart, rank, "rti", pc', frames'[1].sp - 3, stk'.sp, stk'.mem, todo', r)
  <1> DEFINE x == FromNmi(cart)
  <1>1. cart \in Cartridge /\ stk.sp \in Byte
    BY DEF CpuTypeOK, StackType
  <1>2. /\ Bounds(cart, rank, "rti") /\ x \in DOMAIN rank /\ rank[x] < r
        /\ x[1] = Program[cart].nmi /\ x[2] = <<>>
    BY DEF HandlerFits, KeepsStack, FromNmi
  <1>3. pc' = Program[cart].nmi /\ todo' \in {0, 1}
    BY DEF EnterHandler, CpuTypeOK
  <1>4. frames'[1].sp = stk.sp
    <2>1. frames' = <<[pc |-> pc, p |-> p, sp |-> stk.sp]>>
      BY DEF EnterHandler
    <2> QED
      BY <2>1
  <1>5. stk'.sp = stk.sp - 3
    BY ShortPush
  <1> HIDE DEF x
  <1>6. Lies(x[2], frames'[1].sp - 3, stk'.sp, stk'.mem)
    <2>1. Len(x[2]) = 0 /\ 1 .. Len(x[2]) = {}
      BY <1>2
    <2> QED
      BY <1>1, <1>4, <1>5, <2>1 DEF Lies, Byte
  <1>7. /\ MostCycles(OpcodeAt(cart, x)) \in Nat /\ MostCycles(OpcodeAt(cart, x)) >= 1
        /\ rank[x] \in Nat /\ rank[x] >= 2
        /\ ~Ends(cart, x, "rti") =>
             \A y \in Moves(cart, x) :
                rank[y] \in Nat /\ rank[x] >= MostCycles(OpcodeAt(cart, x)) + rank[y]
    <2> DEFINE op == OpcodeAt(cart, x)
    <2>1. /\ op.cycles \in 2 .. 7 /\ MostCycles(op) \in Nat /\ MostCycles(op) >= op.cycles
          /\ rank[x] \in Nat /\ rank[x] >= 2
          /\ ~Ends(cart, x, "rti") =>
               \A y \in Moves(cart, x) : rank[y] \in Nat /\ rank[x] >= MostCycles(op) + rank[y]
      BY <1>1, <1>2, RanksPositive
    <2> HIDE DEF op
    <2>2. MostCycles(op) >= 1
      BY <2>1
    <2> QED
      BY <2>1, <2>2 DEF op
  <1>8. Timely(cart, rank, "rti", x, 0, r)
    BY <1>2, <1>7 DEF Timely
  <1>9. Timely(cart, rank, "rti", x, 1, r)
    <2>1. 1 <= r /\ 1 + rank[x] <= r
      BY <1>2, <1>7
    <2>2. ASSUME ~Ends(cart, x, "rti"), NEW y \in Moves(cart, x) PROVE 1 + rank[y] <= r
      <3>1. rank[y] \in Nat /\ rank[x] >= MostCycles(OpcodeAt(cart, x)) + rank[y]
        BY <1>7, <2>2
      <3> QED
        BY <1>2, <1>7, <3>1
    <2> QED
      BY <2>1, <2>2 DEF Timely
  <1> QED
    BY <1>2, <1>3, <1>6, <1>8, <1>9 DEF OnTime

LEMMA StaysReturning ==
    ASSUME NEW rank, NEW main, NEW room \in Nat,
           \A c \in Cartridge : HandlerFits(c, main[c], rank[c], room),
           ConsoleTypeOK, FramesKept, Disciplined(main, Handlers(rank), room, 1),
           Returning(rank), [Next]_consoleVars
    PROVE  Disciplined(main, Handlers(rank), room, 1)' /\ Returning(rank)'
  <1> DEFINE P == DOMAIN rank[cart]
  <1>1. /\ CpuTypeOK /\ cart \in Cartridge /\ todo \in Nat /\ frames \in Seq(Context)
        /\ HandlerFits(cart, main[cart], rank[cart], room)
    BY DEF ConsoleTypeOK, CpuTypeOK
  <1>2. Bounds(cart, rank[cart], "rti") /\ \A x \in P : OpcodeAt(cart, x).kind # "txs"
    BY <1>1 DEF HandlerFits, KeepsStack
  <1>3. \A c \in Cartridge : KeepsStack(c, main[c], Handlers(rank)[c], room, 1)
    BY DEF HandlerFits, Handlers
  <1>4. StackHasRoom /\ stk.mem[Top] = Hi(Program[cart].irq)
    BY <1>1, <1>3, DisciplineKeepsStack DEF StackKept, FramesKept
  <1>5. /\ Len(frames) \in Nat /\ (frames = <<>> => Len(frames) = 0)
        /\ frames # <<>> => /\ Len(frames) = 1 /\ frames[1].sp \in Byte
                            /\ frames[1].sp >= 3
    <2>1. Len(frames) \in Nat /\ (frames = <<>> <=> Len(frames) = 0) /\ Len(frames) <= 1
      BY <1>1, EmptySeq, LenProperties DEF Disciplined
    <2>2. ASSUME frames # <<>> PROVE frames[1].sp \in Byte /\ frames[1].sp >= 3
      <3>1. 1 \in 1 .. Len(frames)
        BY <2>1, <2>2
      <3>2. frames[1] \in Context /\ Saved(frames[1])
        BY <1>1, <3>1, ElementOfSeq DEF FramesKept
      <3> QED
        BY <3>2 DEF Context, Saved
    <2> QED
      BY <2>1, <2>2
  <1>6. ASSUME Interrupt, HasPpu /\ nmiOn PROVE frames = <<>> /\ EnterHandler
    <2>1. phase = "visible" /\ UntilNmi = 0 /\ EnterHandler
      BY <1>6 DEF Interrupt, UntilNmi, TriggerNmi
    <2>2. frames = <<>>
      BY <1>1, <1>2, <2>1, NotDue DEF Returning, OnTime
    <2> QED
      BY <2>1, <2>2
  <1>7. EnterHandler => Len(frames) < 1
    <2> SUFFICES ASSUME EnterHandler PROVE Len(frames) < 1
      OBVIOUS
    <2>1. ~Finish /\ frames' # frames
      BY <1>1, EnterGrows
    <2>2. Interrupt /\ HasPpu /\ nmiOn
      BY <2>1, Zenon
         DEF Next, consoleVars, cpuVars, Run, Cycle, Fetch, Wait, Crash, Throw, Render, Close,
             SetVBlank, Interrupt, Stopped
    <2> QED
      BY <1>5, <1>6, <2>2
  <1>8. Disciplined(main, Handlers(rank), room, 1)'
    <2>1. ProgramStep
      BY StepIsCpuStep, CpuStepIsProgramStep
    <2> QED
      BY <1>1, <1>3, <1>7, <2>1, DisciplineNext
  <1>9. CASE Run
    <2>1. Cycle /\ cart' = cart /\ phase' = phase /\ phase # "stopped"
      BY <1>9 DEF Run, Running, Cycle, Fetch, Wait, Finish
    <2>2. CASE frames' = <<>>
      BY <1>8, <2>2 DEF Returning
    <2>3. CASE frames' # <<>>
      <3> DEFINE from == frames[1].sp - 3
      <3>1. frames # <<>>
        BY <2>1, <2>3, FramesStep DEF Cycle, Fetch, Wait, Finish, EndsHandler
      <3>2. /\ phase \in {"visible", "vblank"}
            /\ OnTime(cart, rank[cart], "rti", pc, from, stk.sp, stk.mem, todo, UntilNmi)
        BY <2>1, <3>1 DEF Returning
      <3>3. from \in Int /\ from < W
        BY <1>5, <3>1, WidthAssumption DEF Byte
      <3> HIDE DEF from
      <3>4. \/ todo = 1 /\ Execute(Opcode) /\ Opcode.kind = "rti" /\ stk.sp = from
            \/ OnTime(cart, rank[cart], "rti", pc', from, stk'.sp, stk'.mem, todo', UntilNmi - 1)
        BY <1>1, <1>2, <1>4, <2>1, <3>2, <3>3, OnTimeNext, UntilNmiType
      <3>5. ~(todo = 1 /\ Execute(Opcode) /\ Opcode.kind = "rti" /\ stk.sp = from)
        <4> SUFFICES ASSUME todo = 1, Execute(Opcode), Opcode.kind = "rti", stk.sp = from
                     PROVE  FALSE
          OBVIOUS
        <4>1. stk.sp = Down(frames[1].sp, 3)
          BY <1>5, <3>1 DEF from, Down
        <4>2. EndsHandler
          BY <1>5, <3>1, <4>1 DEF EndsHandler
        <4>3. frames' = SubSeq(frames, 1, Len(frames) - 1)
          BY <4>2, FramesStep
        <4>4. Len(frames') = 0 /\ frames' = <<>>
          BY <1>1, <1>5, <3>1, <4>3, FrontOfSeq
        <4> QED
          BY <2>3, <4>4
      <3>6. frames' = frames
        <4>1. CASE Fetch \/ Wait
          BY <4>1 DEF Fetch, Wait
        <4>2. CASE Finish
          <5> SUFFICES ASSUME frames' # frames PROVE FALSE
            OBVIOUS
          <5>1. frames' = SubSeq(frames, 1, Len(frames) - 1)
            BY <4>2, FramesStep DEF Finish
          <5>2. Len(frames') = 0 /\ frames' = <<>>
            BY <1>1, <1>5, <3>1, <5>1, FrontOfSeq
          <5> QED
            BY <2>3, <5>2
        <4> QED
          BY <2>1, <4>1, <4>2 DEF Cycle
      <3>7. OnTime(cart, rank[cart], "rti", pc', from, stk'.sp, stk'.mem, todo', UntilNmi - 1)
        BY <3>4, <3>5
      <3>8. UntilNmi' = UntilNmi - 1 /\ frames'[1].sp - 3 = from
        BY <1>9, <3>6, UntilNmiFalls DEF from
      <3>9. OnTime(cart, rank[cart], "rti", pc, frames[1].sp - 3, stk.sp, stk.mem, todo, UntilNmi)'
        BY <2>1, <3>7, <3>8 DEF OnTime, Timely
      <3> QED
        BY <1>8, <2>1, <3>2, <3>9 DEF Returning
    <2> QED
      BY <2>2, <2>3
  <1>10. CASE Crash \/ Close
    BY <1>8, <1>10 DEF Crash, Close, Throw, SetVBlank, cpuVars, Returning
  <1>11. CASE Render
    <2>1. /\ phase \in {"warmup", "vblank"} /\ left = 0 /\ phase' = "visible"
          /\ left' = RenderCycles
          /\ UNCHANGED <<cart, pc, stk, todo, frames>>
      BY <1>11 DEF Render, FrameStarts, SetVBlank, cpuVars
    <2>2. UntilNmi' = UntilNmi
      BY <2>1, CyclesAssumption DEF UntilNmi
    <2> QED
      BY <1>8, <2>1, <2>2 DEF Returning, OnTime, Timely
  <1>12. CASE Interrupt
    <2>1. /\ phase = "visible" /\ UntilNmi = 0
          /\ phase' = "vblank" /\ left' = VBlankCycles
      BY <1>12 DEF Interrupt, UntilNmi
    <2>2. frames = <<>>
      BY <1>1, <1>2, <2>1, NotDue DEF Returning, OnTime
    <2>3. UntilNmi' = VBlankCycles + RenderCycles /\ UntilNmi' \in Nat
      BY <2>1, CyclesAssumption DEF UntilNmi
    <2>4. CASE HasPpu /\ nmiOn
      <3>1. EnterHandler /\ cart' = cart
        BY <1>6, <1>12, <2>4 DEF EnterHandler
      <3>2. stk.sp >= 3
        BY <1>1, <1>3, <1>7, <3>1, DisciplineInterrupted
      <3>3. OnTime(cart, rank[cart], "rti", pc', frames'[1].sp - 3, stk'.sp, stk'.mem, todo', UntilNmi')
        BY <1>1, <2>2, <2>3, <3>1, <3>2, EntersInTime
      <3> QED
        BY <1>8, <2>1, <3>1, <3>3 DEF Returning, OnTime, Timely
    <2>5. CASE ~(HasPpu /\ nmiOn)
      BY <1>8, <1>12, <2>2, <2>5 DEF Interrupt, cpuVars, Returning
    <2> QED
      BY <2>4, <2>5
  <1>13. CASE Stopped \/ UNCHANGED consoleVars
    BY <1>8, <1>13 DEF Stopped, consoleVars, Returning, UntilNmi, OnTime, Timely
  <1> QED
    BY <1>9, <1>10, <1>11, <1>12, <1>13 DEF Next

(* The handlers' cycles and the program's bytes in one induction: that a    *)
(* handler finds its RTI in time needs the bytes its subroutines return to, *)
(* that the bytes stay needs no second NMI to come.                         *)
LEMMA FitHolds ==
    ASSUME NEW CONSTANT rank, NEW CONSTANT main, NEW CONSTANT room \in Nat,
           \A c \in Cartridge : HandlerFits(c, main[c], rank[c], room)
    PROVE  Spec => []StackKept /\ []NoNestedNmi
  <1> DEFINE D == Disciplined(main, Handlers(rank), room, 1)
             R == Returning(rank)
  <1>1. \A c \in Cartridge : KeepsStack(c, main[c], Handlers(rank)[c], room, 1)
    BY DEF HandlerFits, Handlers
  <1>2. Init => FramesKept /\ D /\ R
    <2> SUFFICES ASSUME Init PROVE FramesKept /\ D /\ R
      OBVIOUS
    <2>1. CpuInit /\ cart \in Cartridge /\ frames = <<>>
      BY DEF Init, CpuInit
    <2>2. D
      BY <1>1, <2>1, DisciplineInit
    <2> QED
      BY <2>1, <2>2, FramesInit DEF Returning
  <1>3. ConsoleTypeOK /\ D => StackKept /\ NoNestedNmi
    <2> SUFFICES ASSUME ConsoleTypeOK, D PROVE StackKept /\ NoNestedNmi
      OBVIOUS
    <2>1. CpuTypeOK /\ cart \in Cartridge
      BY DEF ConsoleTypeOK, CpuTypeOK
    <2>2. StackKept
      BY <1>1, <2>1, DisciplineKeepsStack
    <2> QED
      BY <2>2 DEF NoNestedNmi, Disciplined
  <1>4. ConsoleTypeOK /\ FramesKept /\ D /\ R /\ [Next]_consoleVars => D' /\ R'
    BY StaysReturning
  <1>5. ConsoleTypeOK /\ StackKept /\ StackKept' /\ FramesKept /\ [Next]_consoleVars => FramesKept'
    BY StepIsCpuStep, CpuStepIsProgramStep, FramesNext DEF ConsoleTypeOK
  <1> HIDE DEF D, R
  <1> QED
    BY <1>2, <1>3, <1>4, <1>5, ConsoleTyped, PTL DEF Spec

(* Whatever the cartridges and the length of a frame: where every handler,  *)
(* with the subroutines it calls, comes to its RTI within a frame, as its   *)
(* certificate says, no NMI is ever taken inside the handler of another,    *)
(* whichever instruction the first cut short.                               *)
THEOREM NmisNeverNest ==
    ASSUME NEW CONSTANT rank, NEW CONSTANT main, NEW CONSTANT room \in Nat,
           \A c \in Cartridge : HandlerFits(c, main[c], rank[c], room)
    PROVE  Spec => []NoNestedNmi
  BY FitHolds

(* The same programs lose no byte of their stack to the NMIs of the main    *)
(* loop, however many come, run as if there were none, and every handler    *)
(* returns to what it interrupted.                                          *)
THEOREM TimelyProgramsRun ==
    ASSUME NEW CONSTANT rank, NEW CONSTANT main, NEW CONSTANT room \in Nat,
           \A c \in Cartridge : HandlerFits(c, main[c], rank[c], room)
    PROVE  Spec => []StackKept /\ Uninterrupted /\ HandlerReturnsToContext
  BY FitHolds, ConsoleIsTransparent, PTL
=============================================================================
