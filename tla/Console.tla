------------------------------ MODULE Console ------------------------------
(***************************************************************************)
(* The emulator without its debugger: CPU::begin_cpu_loop and, once a      *)
(* frame, advance_frame.  A frame is rendered, then RenderCycles cycles    *)
(* run, then an NMI is taken if the program has it on, then VBlankCycles   *)
(* cycles run.  `left` is what remains of the advance_cycles call that     *)
(* `phase` names.                                                          *)
(***************************************************************************)
EXTENDS Flow

CONSTANTS
    WarmupCycles,  \* kCyclesPerFrame: before the first frame (29780)
    RenderCycles,  \* kRenderCycles (27393)
    VBlankCycles   \* kVBlankCycles (2273)

ASSUME CyclesAssumption ==
    {WarmupCycles, RenderCycles, VBlankCycles} \subseteq Nat \ {0}

VARIABLES
    phase,      \* the call in progress, or "stopped"
    left,       \* its cycles still to run
    configured  \* history: the program has written PPUCTRL

consoleVars == <<cart, pc, p, idx, stk, todo, nmiOn, vblank, frames, phase, left, configured>>

Phase == {"warmup", "visible", "vblank", "stopped"}

(* The CPU's types; advance_cycles never runs below zero.                   *)
ConsoleTypeOK ==
    /\ CpuTypeOK
    /\ phase \in Phase
    /\ left \in Nat
    /\ configured \in BOOLEAN

\* Mutant of Init: the first frame begins at once.
InitAtOnce ==
    /\ CpuInit
    /\ phase = "warmup"
    /\ left = 0
    /\ configured = FALSE

Init ==
    /\ CpuInit
    /\ phase = "warmup"
    /\ left = WarmupCycles
    /\ configured = FALSE

\* Mutant of Running: the loop does not look at its counter.
RunningOn == phase # "stopped"

Running == phase # "stopped" /\ left > 0

(* One iteration of advance_cycles.                                         *)
Run ==
    /\ Running
    /\ Cycle
    /\ left' = left - 1
    /\ configured' = (configured \/ (todo = 1 /\ Opcode.kind = "ctrl"))
    /\ UNCHANGED phase

(* Nothing catches what cycle() throws: the process ends.                   *)
Crash ==
    /\ Running
    /\ Throw
    /\ phase' = "stopped"
    /\ UNCHANGED <<left, configured>>

FrameStarts == phase \in {"warmup", "vblank"} /\ left = 0

\* Mutant of Render: the picture is drawn, the flag not set.
RenderQuietly ==
    /\ FrameStarts
    /\ UNCHANGED cpuVars
    /\ phase' = "visible"
    /\ left' = RenderCycles
    /\ UNCHANGED configured

(* advance_frame up to its first advance_cycles; without a PPU there is     *)
(* nothing to render.                                                       *)
Render ==
    /\ FrameStarts
    /\ IF HasPpu THEN SetVBlank ELSE UNCHANGED cpuVars
    /\ phase' = "visible"
    /\ left' = RenderCycles
    /\ UNCHANGED configured

(* The user closes the window: the callback that glfwPollEvents runs, after *)
(* the picture was rendered, calls exit.                                    *)
Close ==
    /\ FrameStarts
    /\ HasPpu
    /\ SetVBlank
    /\ phase' = "stopped"
    /\ UNCHANGED <<left, configured>>

\* Mutant of Interrupt: the second advance_cycles is missing.
InterruptShort ==
    /\ phase = "visible"
    /\ left = 0
    /\ IF HasPpu /\ nmiOn
         THEN Len(frames) < MaxNest /\ TriggerNmi
         ELSE UNCHANGED cpuVars
    /\ phase' = "vblank"
    /\ left' = 0
    /\ UNCHANGED configured

(* advance_frame between its two advance_cycles.                            *)
Interrupt ==
    /\ phase = "visible"
    /\ left = 0
    /\ IF HasPpu /\ nmiOn
         THEN Len(frames) < MaxNest /\ TriggerNmi
         ELSE UNCHANGED cpuVars
    /\ phase' = "vblank"
    /\ left' = VBlankCycles
    /\ UNCHANGED configured

Stopped == phase = "stopped" /\ UNCHANGED consoleVars

Next == Run \/ Crash \/ Render \/ Close \/ Interrupt \/ Stopped

Spec == Init /\ [][Next]_consoleVars

(* The loop never waits for anything but the clock.                         *)
FairSpec == Spec /\ WF_consoleVars(Run \/ Crash \/ Render \/ Interrupt)

-----------------------------------------------------------------------------
(* What a program owes to the clock, with the certificates of Flow.         *)

\* From its reset the program writes PPUCTRL before the first NMI is due.
AsksInTime(c, rank) ==
    /\ Bounds(c, rank, "ctrl")
    /\ FromReset(c) \in DOMAIN rank
    /\ rank[FromReset(c)] <= WarmupCycles + RenderCycles

\* Program and handler keep the stack, and the handler, with the subroutines it
\* calls, comes to its RTI before the next NMI, also after the last cycle of an
\* instruction cut short.
HandlerFits(c, main, rank, room) ==
    /\ KeepsStack(c, main, DOMAIN rank, room, 1)
    /\ Bounds(c, rank, "rti")
    /\ rank[FromNmi(c)] < VBlankCycles + RenderCycles

-----------------------------------------------------------------------------
(* A program whose handler is shorter than a frame never has two handlers   *)
(* on its stack, whatever instruction the NMI cuts short.                   *)
NoNestedNmi == Len(frames) <= 1

(* PPUCTRL_ holds garbage until the program writes it.  The cycles before   *)
(* the first NMI are enough for a program to do so: no NMI is taken by one  *)
(* that has not asked for it.                                               *)
NmiOnlyWhenAsked == frames # <<>> => configured

(* A program that waits for the vertical blank by polling PPUSTATUS gets    *)
(* its answer although its NMI handler reads, and so clears, the same flag. *)
PollAnswered ==
    (frames = <<>> /\ Opcode.kind = "status" /\ phase # "stopped")
        ~> ((frames = <<>> /\ Negative(p)) \/ phase = "stopped")
=============================================================================
