------------------------------ MODULE Debugger ------------------------------
(***************************************************************************)
(* The emulator with its debugger (lib/debugger/debugger.cpp): commands    *)
(* are read at a prompt, and `step` and `continue` drive the CPU through   *)
(* smart_execute_cycle, which counts a frame's cycles of its own: at the   *)
(* end of a frame the picture is rendered and the NMI taken at once.       *)
(***************************************************************************)
EXTENDS Cpu, FiniteSets

CONSTANTS
    FrameCycles,   \* kCyclesPerFrame (29780)
    MaxSteps,      \* bound: instructions a user asks one `step` for
    MaxBreaks,     \* bound: breakpoints that exist together
    BreakAddresses, \* the addresses a user sets breakpoints at
    SetValues    \* the numbers a user sets registers to

ASSUME DebuggerAssumption ==
    /\ FrameCycles \in Nat \ {0}
    /\ MaxSteps \in Nat \ {0}
    /\ MaxBreaks \in Nat
    /\ BreakAddresses \subseteq Word
    /\ SetValues \subseteq Word

VARIABLES
    cmd,         \* the command that runs: "prompt" if none, "ended" after exit
    breakpoints, \* breakpoints_
    frameLeft,   \* cycles_todo_in_frame_
    inCycle,     \* smart_execute_cycle is being executed ...
    crossed,     \* ... and this is its exited_vblank
    steps,       \* cmd_step: instructions still to step through,
    opcode,      \* the opcode read when the current one began,
    i,           \* and the cycles it has been given
    ran,         \* history: the instructions executed since then,
    aligned      \* and whether none was part-way through

cmdVars == <<cmd, breakpoints, steps, opcode, i, aligned>>
debugVars == <<cart, pc, p, idx, stk, todo, nmiOn, vblank, frames, cmd, breakpoints,
               frameLeft, inCycle, crossed, steps, opcode, i, ran, aligned>>

(* The CPU's types; cycles_todo_in_frame_ stays within a frame.             *)
DebuggerTypeOK ==
    /\ CpuTypeOK
    /\ cmd \in {"prompt", "step", "continue", "ended"}
    /\ breakpoints \subseteq Word
    /\ frameLeft \in 0 .. FrameCycles
    /\ inCycle \in BOOLEAN
    /\ crossed \in BOOLEAN
    /\ steps \in Nat
    /\ opcode \in Instruction
    /\ i \in Nat
    /\ ran \in Nat
    /\ aligned \in BOOLEAN

Init ==
    /\ CpuInit
    /\ cmd = "prompt"
    /\ breakpoints = {}
    /\ frameLeft = FrameCycles
    /\ inCycle = FALSE
    /\ crossed = FALSE
    /\ steps = 0
    /\ opcode = Opcode
    /\ i = 0
    /\ ran = 0
    /\ aligned = TRUE

-----------------------------------------------------------------------------
(* smart_execute_cycle                                                      *)

\* The part before the CPU's cycle, at the end of a frame.
EndFrame ==
    /\ inCycle
    /\ frameLeft = 0
    /\ frameLeft' = FrameCycles
    /\ crossed' = TRUE
    /\ IF HasPpu
         THEN /\ vblank' = TRUE
              /\ IF nmiOn
                   THEN Len(frames) < MaxNest /\ EnterHandler
                   ELSE UNCHANGED <<cart, pc, p, idx, stk, todo, nmiOn, frames>>
         ELSE UNCHANGED cpuVars
    /\ UNCHANGED <<cmdVars, inCycle, ran>>

\* Mutant of RunCycle: no look at the end of the frame first.
RunCycleOn ==
    /\ inCycle
    /\ \/ Cycle /\ frameLeft' = frameLeft - 1
       \/ Throw /\ UNCHANGED frameLeft
    /\ ran' = IF cmd = "step" /\ todo = 1 THEN ran + 1 ELSE ran
    /\ inCycle' = FALSE
    /\ UNCHANGED <<cmdVars, crossed>>

\* The CPU's cycle; an exception is printed and the cycle not counted.
RunCycle ==
    /\ inCycle
    /\ frameLeft > 0
    /\ \/ Cycle /\ frameLeft' = frameLeft - 1
       \/ Throw /\ UNCHANGED frameLeft
    /\ ran' = IF cmd = "step" /\ todo = 1 THEN ran + 1 ELSE ran
    /\ inCycle' = FALSE
    /\ UNCHANGED <<cmdVars, crossed>>

BeginCycle == inCycle' = TRUE /\ crossed' = FALSE

-----------------------------------------------------------------------------
(* cmd_step: for each instruction the opcode is read once, and cycle_count  *)
(* of that opcode asked before every cycle.                                 *)
AtPrompt == cmd = "prompt"

ReadOpcode ==
    /\ opcode' = Opcode
    /\ i' = 0
    /\ ran' = 0
    /\ aligned' = (todo = 0)
    /\ crossed' = FALSE

Step(n) ==
    /\ AtPrompt
    /\ cmd' = "step"
    /\ steps' = n
    /\ ReadOpcode
    /\ UNCHANGED <<cpuVars, breakpoints, frameLeft, inCycle>>

Stepping == cmd = "step" /\ ~inCycle

\* cycle_count throws outside the try block: the process ends.
StepThrows ==
    /\ Stepping
    /\ opcode.kind = "invalid"
    /\ cmd' = "ended"
    /\ UNCHANGED <<cpuVars, breakpoints, frameLeft, inCycle, crossed, steps, opcode, i, ran, aligned>>

\* Mutant of StepDone: one cycle too many.
StepDoneLate == crossed \/ i > CycleCount(opcode)

StepDone == crossed \/ i >= CycleCount(opcode)

\* Mutant of StepCycle: cycles are not counted.
StepUncounted ==
    /\ Stepping
    /\ opcode.kind # "invalid"
    /\ ~StepDone
    /\ BeginCycle
    /\ UNCHANGED <<cpuVars, cmd, breakpoints, frameLeft, steps, opcode, i, ran, aligned>>

StepCycle ==
    /\ Stepping
    /\ opcode.kind # "invalid"
    /\ ~StepDone
    /\ i' = i + 1
    /\ BeginCycle
    /\ UNCHANGED <<cpuVars, cmd, breakpoints, frameLeft, steps, opcode, ran, aligned>>

StepEnds ==
    /\ Stepping
    /\ opcode.kind # "invalid"
    /\ StepDone
    /\ steps' = steps - 1
    /\ cmd' = IF steps = 1 THEN "prompt" ELSE "step"
    /\ ReadOpcode
    /\ UNCHANGED <<cpuVars, breakpoints, frameLeft, inCycle>>

(* cmd_continue: PC_ is looked at before every cycle.                       *)
Continue ==
    /\ AtPrompt
    /\ cmd' = "continue"
    /\ UNCHANGED <<cpuVars, breakpoints, frameLeft, inCycle, crossed, steps, opcode, i, ran, aligned>>

\* Mutant of ContinueCycle: the breakpoints are not looked at.
ContinueBlindly ==
    /\ cmd = "continue" /\ ~inCycle
    /\ BeginCycle
    /\ UNCHANGED <<cpuVars, cmdVars, frameLeft, ran>>

ContinueCycle ==
    /\ cmd = "continue" /\ ~inCycle
    /\ pc \notin breakpoints
    /\ BeginCycle
    /\ UNCHANGED <<cpuVars, cmdVars, frameLeft, ran>>

BreakpointReached ==
    /\ cmd = "continue" /\ ~inCycle
    /\ pc \in breakpoints
    /\ cmd' = "prompt"
    /\ crossed' = FALSE
    /\ UNCHANGED <<cpuVars, breakpoints, frameLeft, inCycle, steps, opcode, i, ran, aligned>>

-----------------------------------------------------------------------------
(* The commands that only edit: break, delete, clear, set, read and write.  *)
Edits == UNCHANGED <<cmd, frameLeft, inCycle, crossed, steps, opcode, i, ran, aligned>>

AddBreakpoint(a) ==
    /\ AtPrompt
    /\ breakpoints' = breakpoints \cup {a}
    /\ Cardinality(breakpoints') <= MaxBreaks
    /\ Edits /\ UNCHANGED cpuVars

DeleteBreakpoint(a) ==
    /\ AtPrompt
    /\ breakpoints' = breakpoints \ {a}
    /\ Edits /\ UNCHANGED cpuVars

ClearBreakpoints ==
    /\ AtPrompt
    /\ breakpoints' = {}
    /\ Edits /\ UNCHANGED cpuVars

\* `read $2002` goes through CPU::read and clears the flag it shows.
ReadMemory ==
    /\ AtPrompt
    /\ HasPpu
    /\ vblank' = FALSE
    /\ Edits /\ UNCHANGED <<cart, pc, p, idx, stk, todo, nmiOn, frames, breakpoints>>

\* `write $2000`
WriteMemory(on) ==
    /\ AtPrompt
    /\ HasPpu
    /\ nmiOn' = on
    /\ Edits /\ UNCHANGED <<cart, pc, p, idx, stk, todo, vblank, frames, breakpoints>>

\* `write` to the stack page.
WriteStack(c, v) ==
    /\ AtPrompt
    /\ stk' = [stk EXCEPT !.mem[c] = v % W]
    /\ Edits /\ UNCHANGED <<cart, pc, p, idx, todo, nmiOn, vblank, frames, breakpoints>>

(* `set`: the cycles of the instruction being counted down stay what they   *)
(* are.  The register takes the low byte of the number.  Bound: PC and SP   *)
(* are set only while no handler runs.                                      *)
SetPC(a) ==
    /\ AtPrompt
    /\ frames = <<>>
    /\ pc' = a
    /\ Edits /\ UNCHANGED <<cart, p, idx, stk, todo, nmiOn, vblank, frames, breakpoints>>

\* Mutant of SetSP: the number is not truncated to a byte.
SetSPWide(v) ==
    /\ AtPrompt
    /\ frames = <<>>
    /\ stk' = [stk EXCEPT !.sp = v]
    /\ Edits /\ UNCHANGED <<cart, pc, p, idx, todo, nmiOn, vblank, frames, breakpoints>>

SetSP(v) ==
    /\ AtPrompt
    /\ frames = <<>>
    /\ stk' = [stk EXCEPT !.sp = v % W]
    /\ Edits /\ UNCHANGED <<cart, pc, p, idx, todo, nmiOn, vblank, frames, breakpoints>>

SetP(v) ==
    /\ AtPrompt
    /\ p' = v % W
    /\ Edits /\ UNCHANGED <<cart, pc, idx, stk, todo, nmiOn, vblank, frames, breakpoints>>

\* X or Y
SetIndex(large) ==
    /\ AtPrompt
    /\ idx' = large
    /\ Edits /\ UNCHANGED <<cart, pc, p, stk, todo, nmiOn, vblank, frames, breakpoints>>

Exit ==
    /\ AtPrompt
    /\ cmd' = "ended"
    /\ UNCHANGED <<cpuVars, breakpoints, frameLeft, inCycle, crossed, steps, opcode, i, ran, aligned>>

\* The user closes the window: the callback that glfwPollEvents runs, after
\* the picture was rendered, calls exit.
CloseWindow ==
    /\ inCycle
    /\ frameLeft = 0
    /\ HasPpu
    /\ vblank' = TRUE
    /\ frameLeft' = FrameCycles
    /\ cmd' = "ended"
    /\ inCycle' = FALSE
    /\ UNCHANGED <<cart, pc, p, idx, stk, todo, nmiOn, frames, breakpoints, crossed,
                   steps, opcode, i, ran, aligned>>

Ended == cmd = "ended" /\ UNCHANGED debugVars

-----------------------------------------------------------------------------
Machine ==
    \/ EndFrame \/ RunCycle
    \/ StepThrows \/ StepCycle \/ StepEnds
    \/ ContinueCycle \/ BreakpointReached

User ==
    \/ \E n \in 1 .. MaxSteps : Step(n)
    \/ Continue
    \/ \E a \in BreakAddresses : AddBreakpoint(a) \/ DeleteBreakpoint(a)
    \/ ClearBreakpoints
    \/ ReadMemory
    \/ \E b \in BOOLEAN : WriteMemory(b) \/ SetIndex(b)
    \/ \E v \in SetValues : SetPC(v) \/ SetSP(v) \/ SetP(v)
    \/ \E v, c \in SetValues : WriteStack(c % W, v)
    \/ Exit
    \/ CloseWindow

Next == Machine \/ User \/ Ended

Spec == Init /\ [][Next]_debugVars

(* A command, once given, runs; the user may stay silent.                   *)
FairSpec == Spec /\ WF_debugVars(Machine)

-----------------------------------------------------------------------------
(* `continue` executes the instruction at a breakpoint only if an NMI has   *)
(* cut another one short: the handler's first instruction is then given the *)
(* rest of the cycles before PC_ is looked at again (debugger.cpp:259).     *)
BreakpointsPauseOutsideNmi ==
    [][cmd = "continue" /\ RunCycle /\ todo = 1 /\ pc \in breakpoints
         => crossed /\ pc = Program[cart].nmi]_debugVars

(* debugger.hpp:52: a step advances the CPU by one instruction (when it     *)
(* begins on one, and no frame ends meanwhile).                             *)
StepsOne ==
    StepEnds /\ aligned /\ ~crossed => ran = 1 /\ todo = 0

StepIsOneInstruction == [][StepsOne]_debugVars

(* It does for every opcode whose cycles do not depend on an index.         *)
PlainStepIsOneInstruction == [][~opcode.indexed => StepsOne]_debugVars

(* A step comes back to the prompt, also when the program has crashed and   *)
(* every one of its cycles throws.                                          *)
StepReturns == cmd = "step" ~> cmd \in {"prompt", "ended"}

(* debugger.hpp:126: "continue execution of the program as normal": what    *)
(* polls PPUSTATUS for the vertical blank is answered, as it is in the main *)
(* loop.                                                                    *)
PollAnswered ==
    (frames = <<>> /\ Opcode.kind = "status" /\ cmd = "continue")
        ~> ((frames = <<>> /\ Negative(p)) \/ cmd # "continue")
=============================================================================
