--------------------------- MODULE DebuggerProofs ---------------------------
(***************************************************************************)
(* For every cartridge, frame length and sequence of commands: the         *)
(* debugger keeps its types, `continue` runs an instruction at a           *)
(* breakpoint only as the first of an NMI handler, a step over an          *)
(* instruction without an index is that one instruction, and programs with *)
(* certificates notice nothing of it.                                      *)
(***************************************************************************)
EXTENDS Debugger, CpuProofs

(* smart_execute_cycle runs only for a command; and while it runs for       *)
(* `continue`, PC_ is at no breakpoint, unless an NMI has just put it at    *)
(* the handler's first instruction.                                         *)
CheckedBefore ==
    /\ inCycle => cmd \in {"step", "continue"}
    /\ cmd = "continue" /\ inCycle
         => pc \notin breakpoints \/ (crossed /\ pc = Program[cart].nmi)

LEMMA CheckedInductive == CheckedBefore /\ [Next]_debugVars => CheckedBefore'
  <1> SUFFICES ASSUME CheckedBefore, [Next]_debugVars PROVE CheckedBefore'
    OBVIOUS
  <1> USE DEF CheckedBefore
  <1>1. CASE EndFrame
    <2>1. breakpoints' = breakpoints /\ cmd' = cmd /\ inCycle' = inCycle /\ crossed' = TRUE
      BY <1>1 DEF EndFrame, cmdVars
    <2>2. cart' = cart /\ (pc' = pc \/ pc' = Program[cart].nmi)
      BY <1>1 DEF EndFrame, EnterHandler, cpuVars
    <2> QED
      BY <1>1, <2>1, <2>2 DEF EndFrame
  <1>2. CASE RunCycle
    BY <1>2 DEF RunCycle
  <1>3. CASE StepThrows \/ StepCycle \/ StepEnds
    BY <1>3 DEF StepThrows, StepCycle, StepEnds, Stepping, ReadOpcode
  <1>4. CASE ContinueCycle
    BY <1>4 DEF ContinueCycle, BeginCycle, cpuVars, cmdVars
  <1>5. CASE BreakpointReached
    BY <1>5 DEF BreakpointReached
  <1>6. CASE User
    <2>1. CASE CloseWindow
      BY <2>1 DEF CloseWindow
    <2>2. CASE ~CloseWindow
      <3>1. AtPrompt /\ inCycle' = inCycle
        BY <1>6, <2>2
           DEF User, Step, Continue, AddBreakpoint, DeleteBreakpoint, ClearBreakpoints,
               ReadMemory, WriteMemory, WriteStack, SetPC, SetSP, SetP, SetIndex, Exit, Edits
      <3> QED
        BY <3>1 DEF AtPrompt
    <2> QED
      BY <2>1, <2>2
  <1>7. CASE Ended \/ UNCHANGED debugVars
    BY <1>7 DEF Ended, debugVars
  <1> QED
    BY <1>1, <1>2, <1>3, <1>4, <1>5, <1>6, <1>7 DEF Next, Machine

(* A user who sets a breakpoint and continues gets the prompt back before   *)
(* the instruction at it, in a frame of any length, unless that is where an *)
(* NMI that just came begins its handler.                                   *)
THEOREM BreakpointsAlwaysPause == Spec => BreakpointsPauseOutsideNmi
  <1>1. Init => CheckedBefore
    BY DEF Init, CheckedBefore
  <1>2. CheckedBefore /\ [Next]_debugVars
          => [cmd = "continue" /\ RunCycle /\ todo = 1 /\ pc \in breakpoints
                => crossed /\ pc = Program[cart].nmi]_debugVars
    BY DEF CheckedBefore, RunCycle
  <1> QED
    BY <1>1, <1>2, CheckedInductive, PTL DEF Spec, BreakpointsPauseOutsideNmi

-----------------------------------------------------------------------------
LEMMA RunCycleType == DebuggerTypeOK /\ RunCycle => DebuggerTypeOK'
  <1> SUFFICES ASSUME DebuggerTypeOK, RunCycle PROVE DebuggerTypeOK'
    OBVIOUS
  <1>1. CpuTypeOK'
    <2>1. CpuTypeOK /\ (Cycle \/ Throw)
      BY DEF DebuggerTypeOK, RunCycle
    <2> QED
      BY <2>1, CpuNextType DEF CpuNext
  <1>2. frameLeft' \in 0 .. FrameCycles /\ ran' \in Nat
    BY DebuggerAssumption DEF DebuggerTypeOK, RunCycle
  <1> QED
    BY <1>1, <1>2 DEF DebuggerTypeOK, RunCycle, cmdVars

LEMMA EndFrameType == DebuggerTypeOK /\ EndFrame => DebuggerTypeOK'
  <1> SUFFICES ASSUME DebuggerTypeOK, EndFrame PROVE DebuggerTypeOK'
    OBVIOUS
  <1>1. CpuTypeOK'
    <2>1. CASE HasPpu /\ nmiOn
      BY <2>1, NmiType DEF DebuggerTypeOK, EndFrame
    <2>2. CASE ~(HasPpu /\ nmiOn)
      BY <2>2 DEF DebuggerTypeOK, EndFrame, CpuTypeOK, cpuVars
    <2> QED
      BY <2>1, <2>2
  <1>2. frameLeft' \in 0 .. FrameCycles /\ crossed' \in BOOLEAN
    BY DebuggerAssumption DEF EndFrame
  <1> QED
    BY <1>1, <1>2 DEF DebuggerTypeOK, EndFrame, cmdVars

(* A `step` that runs has an instruction left to step through: without it   *)
(* the type of `steps` is not inductive.                                    *)
DebuggerInv ==
    /\ DebuggerTypeOK
    /\ cmd = "step" => steps >= 1

LEMMA ReadOpcodeType ==
    ASSUME CpuTypeOK, ReadOpcode
    PROVE  /\ opcode' \in Instruction /\ i' \in Nat /\ ran' \in Nat
           /\ aligned' \in BOOLEAN /\ crossed' \in BOOLEAN
  <1>1. opcode' \in Instruction /\ i' \in Nat /\ ran' \in Nat
    BY OpcodeType DEF ReadOpcode
  <1>2. aligned' \in BOOLEAN /\ crossed' \in BOOLEAN
    BY Zenon DEF ReadOpcode
  <1> QED
    BY <1>1, <1>2

\* The steps of a command between two cycles: the CPU is left alone.
LEMMA CommandInv ==
    ASSUME DebuggerInv, StepThrows \/ StepCycle \/ StepEnds \/ ContinueCycle \/ BreakpointReached
    PROVE  DebuggerInv'
  <1> USE DEF DebuggerInv, DebuggerTypeOK
  <1>1. CpuTypeOK'
    BY DEF StepThrows, StepCycle, StepEnds, ContinueCycle, BreakpointReached, CpuTypeOK, cpuVars
  <1>2. CASE StepThrows
    BY <1>1, <1>2 DEF StepThrows
  <1>3. CASE StepCycle
    <2>1. inCycle' \in BOOLEAN /\ crossed' \in BOOLEAN /\ aligned' \in BOOLEAN
      BY <1>3, Zenon DEF StepCycle, BeginCycle
    <2>2. i' \in Nat /\ steps' = steps /\ cmd' = cmd /\ opcode' = opcode /\ ran' = ran
      BY <1>3 DEF StepCycle
    <2>3. breakpoints' = breakpoints /\ frameLeft' = frameLeft
      BY <1>3 DEF StepCycle
    <2> QED
      BY <1>1, <2>1, <2>2, <2>3
  <1>4. CASE StepEnds
    <2>1. steps' \in Nat /\ (cmd' = "step" => steps' >= 1) /\ cmd' \in {"prompt", "step"}
      BY <1>4 DEF StepEnds, Stepping
    <2>2. ReadOpcode /\ breakpoints' = breakpoints /\ frameLeft' = frameLeft /\ inCycle' = inCycle
      BY <1>4 DEF StepEnds
    <2> QED
      BY <1>1, <2>1, <2>2, ReadOpcodeType
  <1>5. CASE ContinueCycle
    BY <1>1, <1>5 DEF ContinueCycle, BeginCycle, cmdVars
  <1>6. CASE BreakpointReached
    BY <1>1, <1>6 DEF BreakpointReached
  <1> QED
    BY <1>2, <1>3, <1>4, <1>5, <1>6

LEMMA UserInv == DebuggerInv /\ User => DebuggerInv'
  <1> SUFFICES ASSUME DebuggerInv, User PROVE DebuggerInv'
    OBVIOUS
  <1> USE DEF DebuggerInv, DebuggerTypeOK
  <1>1. CASE \E n \in 1 .. MaxSteps : Step(n)
    <2> PICK n \in 1 .. MaxSteps : Step(n)
      BY <1>1
    <2>1. CpuTypeOK' /\ ReadOpcode
      BY DEF Step, CpuTypeOK, cpuVars
    <2>2. steps' = n /\ n \in Nat /\ n >= 1 /\ cmd' = "step"
      BY DebuggerAssumption DEF Step
    <2> QED
      BY <2>1, <2>2, ReadOpcodeType DEF Step
  <1>2. CASE Continue \/ Exit
    <2>1. CpuTypeOK'
      BY <1>2 DEF Continue, Exit, CpuTypeOK, cpuVars
    <2> QED
      BY <1>2, <2>1 DEF Continue, Exit
  <1>3. CASE CloseWindow
    <2>1. CpuTypeOK'
      BY <1>3 DEF CloseWindow, CpuTypeOK
    <2>2. inCycle' \in BOOLEAN /\ crossed' \in BOOLEAN /\ aligned' \in BOOLEAN
      BY <1>3, Zenon DEF CloseWindow
    <2>3. frameLeft' \in 0 .. FrameCycles /\ cmd' = "ended"
      BY <1>3, DebuggerAssumption DEF CloseWindow
    <2>4. /\ breakpoints' = breakpoints /\ steps' = steps /\ opcode' = opcode
          /\ i' = i /\ ran' = ran
      BY <1>3 DEF CloseWindow
    <2> QED
      BY <2>1, <2>2, <2>3, <2>4
  <1>4. CASE \/ \E a \in BreakAddresses : AddBreakpoint(a) \/ DeleteBreakpoint(a)
             \/ ClearBreakpoints
    <2>1. CpuTypeOK'
      BY <1>4 DEF AddBreakpoint, DeleteBreakpoint, ClearBreakpoints, CpuTypeOK, cpuVars
    <2>2. breakpoints' \subseteq Word
      BY <1>4, DebuggerAssumption DEF AddBreakpoint, DeleteBreakpoint, ClearBreakpoints
    <2>3. Edits
      BY <1>4 DEF AddBreakpoint, DeleteBreakpoint, ClearBreakpoints
    <2> QED
      BY <2>1, <2>2, <2>3 DEF Edits
  <1>5. CASE ReadMemory \/ \E b \in BOOLEAN : WriteMemory(b) \/ SetIndex(b)
    <2>1. CpuTypeOK'
      BY <1>5 DEF ReadMemory, WriteMemory, SetIndex, CpuTypeOK
    <2>2. Edits /\ breakpoints' = breakpoints
      BY <1>5 DEF ReadMemory, WriteMemory, SetIndex
    <2> QED
      BY <2>1, <2>2 DEF Edits
  <1>6. CASE \/ \E v \in SetValues : SetPC(v) \/ SetSP(v) \/ SetP(v)
             \/ \E v, c \in SetValues : WriteStack(c % W, v)
    <2>1. \A v \in SetValues : v \in Word /\ v % W \in Byte
      BY DebuggerAssumption, WidthAssumption DEF Word, Byte
    <2>2. Byte \subseteq Cell
      BY WidthAssumption DEF Byte, Cell
    <2>3. \A v \in SetValues : SetPC(v) \/ SetSP(v) \/ SetP(v) => CpuTypeOK'
      BY <2>1 DEF SetPC, SetSP, SetP, CpuTypeOK, StackType
    <2>4. \A v, c \in SetValues : WriteStack(c % W, v) => CpuTypeOK'
      BY <2>1, <2>2 DEF WriteStack, CpuTypeOK, StackType
    <2>5. Edits /\ breakpoints' = breakpoints
      BY <1>6 DEF SetPC, SetSP, SetP, WriteStack
    <2> QED
      BY <1>6, <2>3, <2>4, <2>5 DEF Edits
  <1> QED
    BY <1>1, <1>2, <1>3, <1>4, <1>5, <1>6 DEF User

LEMMA DebuggerInvHolds == Spec => []DebuggerInv
  <1>1. Init => DebuggerInv
    <2>1. Init => CpuTypeOK /\ Opcode \in Instruction
      BY InitType, OpcodeType DEF Init
    <2>2. Init => inCycle \in BOOLEAN /\ crossed \in BOOLEAN /\ aligned \in BOOLEAN
      BY Zenon DEF Init
    <2>3. Init => frameLeft \in 0 .. FrameCycles /\ breakpoints \subseteq Word /\ cmd = "prompt"
      BY DebuggerAssumption DEF Init
    <2>4. Init => steps \in Nat /\ i \in Nat /\ ran \in Nat /\ opcode = Opcode
      BY DEF Init
    <2> QED
      BY <2>1, <2>2, <2>3, <2>4 DEF DebuggerInv, DebuggerTypeOK
  <1>2. DebuggerInv /\ [Next]_debugVars => DebuggerInv'
    <2> SUFFICES ASSUME DebuggerInv, [Next]_debugVars PROVE DebuggerInv'
      OBVIOUS
    <2>1. CASE EndFrame
      BY <2>1, EndFrameType DEF DebuggerInv, EndFrame, cmdVars
    <2>2. CASE RunCycle
      BY <2>2, RunCycleType DEF DebuggerInv, RunCycle, cmdVars
    <2>3. CASE StepThrows \/ StepCycle \/ StepEnds \/ ContinueCycle \/ BreakpointReached
      BY <2>3, CommandInv
    <2>4. CASE User
      BY <2>4, UserInv
    <2>5. CASE Ended \/ UNCHANGED debugVars
      <3>1. CpuTypeOK'
        BY <2>5 DEF DebuggerInv, DebuggerTypeOK, Ended, debugVars, CpuTypeOK
      <3> QED
        BY <2>5, <3>1 DEF DebuggerInv, DebuggerTypeOK, Ended, debugVars
    <2> QED
      BY <2>1, <2>2, <2>3, <2>4, <2>5 DEF Next, Machine
  <1> QED
    BY <1>1, <1>2, PTL DEF Spec

(* No command and no frame end takes a register, the stack page or one of   *)
(* the two cycle counters out of range.                                     *)
THEOREM DebuggerTyped == Spec => []DebuggerTypeOK
  <1>1. DebuggerInv => DebuggerTypeOK
    BY DEF DebuggerInv
  <1> QED
    BY <1>1, DebuggerInvHolds, PTL

-----------------------------------------------------------------------------
(* How far a step has come that began on an instruction and has met no end  *)
(* of a frame: not begun, begun but not executed, or executed, once.        *)
Given == IF inCycle THEN i - 1 ELSE i

StepProgress ==
    \/ Given = 0 /\ todo = 0 /\ ran = 0 /\ Opcode = opcode
    \/ Given \in 1 .. (opcode.cycles - 1) /\ todo = opcode.cycles - Given /\ ran = 0
    \/ Given = opcode.cycles /\ todo = 0 /\ ran = 1 /\ ~inCycle

Whole == aligned /\ ~crossed /\ ~opcode.indexed /\ opcode.kind # "invalid"

StepInv == cmd = "step" /\ Whole => StepProgress

\* The cycle that smart_execute_cycle runs takes the step one cycle on.
LEMMA RunCycleProgress ==
    ASSUME DebuggerInv, StepInv, RunCycle
    PROVE  StepInv'
  <1> SUFFICES ASSUME cmd' = "step", Whole' PROVE StepProgress'
    BY DEF StepInv
  <1>1. /\ cmd = "step" /\ inCycle /\ ~inCycle' /\ Whole
        /\ opcode' = opcode /\ i' = i
    BY DEF RunCycle, cmdVars, Whole
  <1>2. opcode.cycles \in 2 .. 7 /\ i \in Nat /\ todo \in 0 .. 7 /\ ran \in Nat
    BY DEF DebuggerInv, DebuggerTypeOK, CpuTypeOK, Instruction
  <1>3. Given = i - 1 /\ Given' = i
    BY <1>1 DEF Given
  <1>4. StepProgress
    BY <1>1 DEF StepInv
  <1>5. CASE todo = 0
    <2>1. i = 1 /\ ran = 0 /\ Opcode = opcode
      BY <1>1, <1>2, <1>3, <1>4, <1>5 DEF StepProgress
    <2>2. todo' = opcode.cycles - 1
      BY <1>1, <1>5, <2>1
         DEF RunCycle, Cycle, Fetch, Wait, Finish, Throw, CycleThrows, CycleCount, Whole
    <2>3. ran' = 0
      BY <1>5, <2>1 DEF RunCycle
    <2> QED
      BY <1>1, <1>2, <1>3, <2>1, <2>2, <2>3 DEF StepProgress
  <1>6. CASE todo # 0
    <2>1. Given \in 1 .. (opcode.cycles - 1) /\ todo = opcode.cycles - Given /\ ran = 0
      BY <1>1, <1>4, <1>6 DEF StepProgress
    <2>2. todo' = todo - 1
      BY <1>2, <1>6 DEF RunCycle, Cycle, Fetch, Wait, Finish, Throw, CycleThrows
    <2>3. ran' = IF todo = 1 THEN 1 ELSE 0
      BY <1>1, <2>1 DEF RunCycle
    <2> QED
      BY <1>1, <1>2, <1>3, <2>1, <2>2, <2>3 DEF StepProgress
  <1> QED
    BY <1>5, <1>6

\* A new instruction is stepped into when none is part-way through.
LEMMA ReadOpcodeProgress ==
    ASSUME ReadOpcode, ~inCycle', UNCHANGED cpuVars
    PROVE  StepInv'
  <1> SUFFICES ASSUME aligned' PROVE StepProgress'
    BY DEF StepInv, Whole
  <1>1. i' = 0 /\ ran' = 0 /\ todo = 0 /\ opcode' = Opcode
    BY DEF ReadOpcode
  <1>2. todo' = todo /\ Opcode' = Opcode
    BY DEF cpuVars, Opcode, Code
  <1> QED
    BY <1>1, <1>2 DEF StepProgress, Given

LEMMA StepInvInductive ==
    DebuggerInv /\ CheckedBefore /\ StepInv /\ [Next]_debugVars => StepInv'
  <1> SUFFICES ASSUME DebuggerInv, CheckedBefore, StepInv, [Next]_debugVars PROVE StepInv'
    OBVIOUS
  <1>1. CASE EndFrame
    BY <1>1 DEF EndFrame, StepInv, Whole
  <1>2. CASE RunCycle
    BY <1>2, RunCycleProgress
  <1>3. CASE StepCycle
    <2> SUFFICES ASSUME Whole' PROVE StepProgress'
      BY DEF StepInv
    <2>1. /\ cmd = "step" /\ ~inCycle /\ inCycle' /\ i' = i + 1
          /\ todo' = todo /\ ran' = ran /\ opcode' = opcode /\ Opcode' = Opcode
      BY <1>3 DEF StepCycle, Stepping, BeginCycle, cpuVars, Opcode, Code
    <2>2. Whole /\ i < opcode.cycles
      <3>1. ~crossed /\ ~(i >= CycleCount(opcode))
        BY <1>3 DEF StepCycle, StepDone
      <3>2. aligned /\ ~opcode.indexed /\ opcode.kind # "invalid"
        BY <1>3 DEF StepCycle, Whole
      <3>3. i \in Nat /\ opcode.cycles \in Nat
        BY DEF DebuggerInv, DebuggerTypeOK, Instruction
      <3> QED
        BY <3>1, <3>2, <3>3 DEF Whole, CycleCount
    <2>3. StepProgress
      BY <2>1, <2>2 DEF StepInv
    <2>4. Given = i /\ Given' = i /\ i \in Nat /\ opcode.cycles \in Nat
      BY <2>1 DEF Given, DebuggerInv, DebuggerTypeOK, Instruction
    <2> QED
      BY <2>1, <2>2, <2>3, <2>4 DEF StepProgress
  <1>4. CASE StepEnds
    BY <1>4, ReadOpcodeProgress DEF StepEnds, Stepping
  <1>5. CASE \E n \in 1 .. MaxSteps : Step(n)
    BY <1>5, ReadOpcodeProgress DEF Step, AtPrompt, CheckedBefore
  <1>6. CASE StepThrows \/ ContinueCycle \/ BreakpointReached \/ Continue \/ Exit
             \/ CloseWindow \/ Ended
    <2>1. cmd' # "step"
      BY <1>6 DEF StepThrows, ContinueCycle, cmdVars, BreakpointReached, Continue, Exit,
                  CloseWindow, Ended, debugVars
    <2> QED
      BY <2>1 DEF StepInv
  <1>7. CASE User /\ ~(\E n \in 1 .. MaxSteps : Step(n)) /\ ~Continue /\ ~Exit /\ ~CloseWindow
    <2>1. cmd = "prompt" /\ cmd' = cmd
      BY <1>7 DEF User, AddBreakpoint, DeleteBreakpoint, ClearBreakpoints, ReadMemory,
                  WriteMemory, WriteStack, SetPC, SetSP, SetP, SetIndex, Edits, AtPrompt
    <2> QED
      BY <2>1 DEF StepInv
  <1>8. CASE UNCHANGED debugVars
    <2>1. /\ inCycle' = inCycle /\ i' = i /\ todo' = todo /\ ran' = ran /\ opcode' = opcode
          /\ Opcode' = Opcode /\ cmd' = cmd /\ aligned' = aligned /\ crossed' = crossed
      BY <1>8 DEF debugVars, Opcode, Code
    <2> QED
      BY <2>1 DEF StepInv, Whole, StepProgress, Given
  <1> QED
    BY <1>1, <1>2, <1>3, <1>4, <1>5, <1>6, <1>7, <1>8 DEF Next, Machine

(* A step over an instruction whose cycles do not depend on an index, begun *)
(* with none part-way through and ended within the frame, has executed that *)
(* one instruction and leaves none begun: for every program, every frame    *)
(* length, and whatever the user has edited before (debugger.cpp:244).      *)
THEOREM PlainStepsAreOneInstruction == Spec => PlainStepIsOneInstruction
  <1>1. Init => CheckedBefore /\ StepInv
    BY DEF Init, CheckedBefore, StepInv
  <1>2. DebuggerInv /\ StepInv => (~opcode.indexed => StepsOne)
    <2> SUFFICES ASSUME DebuggerInv, StepInv, ~opcode.indexed, StepEnds, aligned, ~crossed
                 PROVE  ran = 1 /\ todo = 0
      BY DEF StepsOne
    <2>1. cmd = "step" /\ ~inCycle /\ Whole
      BY DEF StepEnds, Stepping, Whole
    <2>2. i >= opcode.cycles /\ opcode.cycles \in 2 .. 7 /\ i \in Nat
      BY DEF StepEnds, StepDone, CycleCount, DebuggerInv, DebuggerTypeOK, Instruction
    <2>3. Given = i /\ StepProgress
      BY <2>1 DEF Given, StepInv
    <2> QED
      BY <2>2, <2>3 DEF StepProgress
  <1>3. DebuggerInv /\ StepInv => [~opcode.indexed => StepsOne]_debugVars
    BY <1>2
  <1> QED
    BY <1>1, <1>3, CheckedInductive, StepInvInductive, DebuggerInvHolds, PTL
       DEF Spec, PlainStepIsOneInstruction

-----------------------------------------------------------------------------
(* Users who set no register and write no stack byte.                       *)
LEMMA DebugStepIsProgramStep ==
    ASSUME SetValues = {}, [Next]_debugVars
    PROVE  ProgramStep
  <1>1. CASE EndFrame
    BY <1>1, Zenon DEF EndFrame, ProgramStep, cpuVars
  <1>2. CASE RunCycle
    BY <1>2, Zenon DEF RunCycle, Cycle, Fetch, Wait, Throw, ProgramStep, cpuVars
  <1>3. CASE \/ StepThrows \/ StepCycle \/ StepEnds \/ ContinueCycle \/ BreakpointReached
             \/ Ended \/ UNCHANGED debugVars
    BY <1>3, Zenon DEF StepThrows, StepCycle, StepEnds, ContinueCycle, BreakpointReached,
                       Ended, ProgramStep, cpuVars, debugVars
  <1>4. CASE User
    BY <1>4 DEF User, Step, Continue, AddBreakpoint, DeleteBreakpoint, ClearBreakpoints,
                ReadMemory, WriteMemory, SetIndex, Exit, CloseWindow, ProgramStep, cpuVars
  <1> QED
    BY <1>1, <1>2, <1>3, <1>4 DEF Next, Machine

(* Stepping, continuing, breakpoints and reads at the prompt are no more    *)
(* visible to a program that keeps its stack than its NMIs are.             *)
THEOREM DebuggingIsTransparent ==
    ASSUME SetValues = {}
    PROVE  Spec /\ []StackKept => Uninterrupted
  <1>1. /\ Init => CpuInit
        /\ DebuggerTypeOK => CpuTypeOK
    BY DEF Init, DebuggerTypeOK
  <1>2. CpuTypeOK /\ StackKept /\ StackKept' /\ FramesKept /\ [Next]_debugVars
          => FramesKept' /\ [T!Next(Program[cart].irq)]_(T!tvars)
    BY DebugStepIsProgramStep, FramesNext, StepIsThreadStep
  <1> QED
    BY <1>1, <1>2, FramesInit, ThreadInit, DebuggerTyped, PTL DEF Spec, Uninterrupted

(* Of the debugger's steps only the end of a frame takes an NMI.            *)
LEMMA DebugStepEnters ==
    ASSUME CpuTypeOK, SetValues = {}, [Next]_debugVars, EnterHandler
    PROVE  Len(frames) < MaxNest
  <1>1. ~Finish /\ frames' # frames
    BY EnterGrows
  <1>2. ~RunCycle
    BY <1>1, Zenon DEF RunCycle, Cycle, Fetch, Wait, Throw, cpuVars
  <1>3. ~User
    BY <1>1 DEF User, Step, Continue, AddBreakpoint, DeleteBreakpoint, ClearBreakpoints,
                ReadMemory, WriteMemory, SetIndex, Exit, CloseWindow, cpuVars
  <1>4. EndFrame
    BY <1>1, <1>2, <1>3, Zenon
       DEF Next, Machine, StepThrows, StepCycle, StepEnds, ContinueCycle, BreakpointReached,
           Ended, debugVars, cpuVars
  <1> QED
    BY <1>1, <1>4, Zenon DEF EndFrame, cpuVars

(* Programs with certificates keep their stack under the debugger too: no   *)
(* sequence of steps, breakpoints, reads and exceptions costs them a byte,  *)
(* and their handlers return to what they interrupted.                      *)
THEOREM DebuggedProgramsRun ==
    ASSUME NEW CONSTANT main, NEW CONSTANT handler, NEW CONSTANT room \in Nat,
           \A c \in Cartridge : KeepsStack(c, main[c], handler[c], room, MaxNest),
           SetValues = {}
    PROVE  Spec => []StackKept /\ Uninterrupted /\ HandlerReturnsToContext
  <1> DEFINE Inv == Disciplined(main, handler, room, MaxNest)
  <1>1. Init => CpuInit /\ Inv
    BY DisciplineInit, ProgramAssumption DEF Init, CpuInit
  <1>2. DebuggerTypeOK => CpuTypeOK
    BY DEF DebuggerTypeOK
  <1>3. CpuTypeOK /\ Inv => StackKept
    BY DisciplineKeepsStack, ProgramAssumption DEF CpuTypeOK
  <1>4. CpuTypeOK /\ FramesKept /\ Inv /\ [Next]_debugVars => Inv'
    <2> SUFFICES ASSUME CpuTypeOK, FramesKept, Inv, [Next]_debugVars PROVE Inv'
      OBVIOUS
    <2>1. ProgramStep /\ (EnterHandler => Len(frames) < MaxNest)
      BY DebugStepIsProgramStep, DebugStepEnters
    <2> QED
      BY <2>1, DisciplineNext, ProgramAssumption
  <1>5. CpuTypeOK /\ StackKept /\ StackKept' /\ FramesKept /\ [Next]_debugVars => FramesKept'
    BY DebugStepIsProgramStep, FramesNext
  <1>6. CpuTypeOK /\ StackKept /\ FramesKept
          => [todo = 1 /\ Opcode.kind = "rti" /\ EndsHandler /\ Finish
                => [pc |-> pc', p |-> p', sp |-> stk'.sp] = frames[Len(frames)]]_cpuVars
    BY FinishReturns
  <1> HIDE DEF Inv
  <1>7. Spec => []StackKept /\ []FramesKept /\ []CpuTypeOK
    BY <1>1, <1>2, <1>3, <1>4, <1>5, FramesInit, DebuggerTyped, PTL DEF Spec
  <1>8. Spec => Uninterrupted
    BY <1>7, DebuggingIsTransparent, PTL
  <1> QED
    BY <1>6, <1>7, <1>8, PTL DEF HandlerReturnsToContext
=============================================================================
