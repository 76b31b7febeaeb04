------------------------------ MODULE Emulator ------------------------------
(***************************************************************************)
(* The whole machine with its window: the CPU of module Machine on the bus *)
(* with PPU, controller and cartridge, driven by CPU::begin_cpu_loop as in *)
(* module Console, once module Cartridge has read the file.  Keys change   *)
(* when a frame has been rendered, because that is where glfwPollEvents is *)
(* called; the program runs in between.                                    *)
(***************************************************************************)
EXTENDS Machine, Cartridge

CONSTANTS
    WarmupCycles,  \* kCyclesPerFrame: before the first frame
    RenderCycles,  \* kRenderCycles
    VBlankCycles,  \* kVBlankCycles
    Ppus, Pads,    \* what the uninitialised registers may hold at power on
    Hands,         \* the sets of buttons a player holds
    MaxFrames      \* bound: the frames of a run

ASSUME EmulatorAssumption ==
    /\ {WarmupCycles, RenderCycles, VBlankCycles, MaxFrames} \subseteq Nat
    /\ Hands \subseteq SUBSET Button
    /\ \A ppu \in Ppus : PpuTypeOK(ppu)
    /\ \A pad \in Pads : PadTypeOK(pad)

VARIABLES
    phase,   \* "load", the call of advance_cycles in progress, "refused" or "stopped"
    left,    \* its cycles still to run
    frame,   \* the frames rendered
    polled   \* history: what was held at each NMI taken

emulatorVars == <<cpu, todo, file, in, prg_rom, stage, phase, left, frame, polled>>

\* Before there is one.
NoCpu == [bus |-> [none |-> TRUE]]

EmulatorInit ==
    /\ CartridgeInit
    /\ cpu = NoCpu
    /\ todo = 0
    /\ phase = "load"
    /\ left = 0
    /\ frame = 0
    /\ polled = <<>>

\* main: the constructor of Cartridge.
ReadFile ==
    /\ phase = "load"
    /\ CartridgeNext
    /\ UNCHANGED <<cpu, todo, phase, left, frame, polled>>

\* Nothing catches what it throws.
Refuse ==
    /\ phase = "load"
    /\ stage = "failed"
    /\ phase' = "refused"
    /\ UNCHANGED <<cpu, todo, cartridgeVars, left, frame, polled>>

Insert ==
    /\ phase = "load"
    /\ stage = "ready"
    /\ \E ppu \in Ppus, pad \in Pads :
          cpu' = PowerOn(MakeBus({"ppu", "pad"}, ppu, pad, Mapper0(file.prg, prg_rom)))
    /\ phase' = "warmup"
    /\ left' = WarmupCycles
    /\ UNCHANGED <<todo, cartridgeVars, frame, polled>>

\* Mutant of Run: advance_cycles counts down to zero and runs that, too.
RunOneMore ==
    /\ left >= 0
    /\ phase \in {"warmup", "visible", "vblank"}
    /\ Cycle
    /\ phase' = IF todo' = todo THEN "stopped" ELSE phase
    /\ left' = left - 1
    /\ UNCHANGED <<cartridgeVars, frame, polled>>

(* One iteration of advance_cycles.  A cycle leaves todo as it is only when *)
(* it throws, and nothing catches that.                                     *)
Run ==
    /\ left > 0
    /\ phase \in {"warmup", "visible", "vblank"}
    /\ Cycle
    /\ phase' = IF todo' = todo THEN "stopped" ELSE phase
    /\ left' = left - 1
    /\ UNCHANGED <<cartridgeVars, frame, polled>>

(* advance_frame: render_to_window, and in it glfwPollEvents.               *)
Render(held) ==
    /\ left = 0
    /\ phase \in {"warmup", "vblank"}
    /\ frame < MaxFrames
    /\ cpu' = [cpu EXCEPT !.bus.ppu = SetVblank(@), !.bus.keys = held]
    /\ phase' = "visible"
    /\ left' = RenderCycles
    /\ frame' = frame + 1
    /\ UNCHANGED <<cartridgeVars, todo, polled>>

\* Mutant of Interrupt: PPUCTRL is not looked at.
InterruptAlways ==
    /\ left = 0
    /\ phase = "visible"
    /\ TriggerNmi /\ polled' = Append(polled, cpu.bus.keys)
    /\ phase' = "vblank"
    /\ left' = VBlankCycles
    /\ UNCHANGED <<cartridgeVars, frame>>

Interrupt ==
    /\ left = 0
    /\ phase = "visible"
    /\ IF IsNmiEnabled(cpu.bus.ppu)
         THEN TriggerNmi /\ polled' = Append(polled, cpu.bus.keys)
         ELSE UNCHANGED <<cpu, todo, polled>>
    /\ phase' = "vblank"
    /\ left' = VBlankCycles
    /\ UNCHANGED <<cartridgeVars, frame>>

(* Where a run ends: after MaxFrames frames, or an exception.               *)
Over ==
    /\ \/ phase \in {"refused", "stopped"}
       \/ phase = "vblank" /\ left = 0 /\ frame = MaxFrames
    /\ UNCHANGED emulatorVars

EmulatorNext ==
    ReadFile \/ Refuse \/ Insert \/ Run \/ (\E held \in Hands : Render(held)) \/ Interrupt \/ Over

EmulatorSpec == EmulatorInit /\ [][EmulatorNext]_emulatorVars

FrameOver == phase = "vblank" /\ left = 0

-----------------------------------------------------------------------------
(* From when there is a CPU on, it is a machine with its types, and the     *)
(* loop's count of cycles never runs below zero (alu.cpp:457, cpu.cpp:71).  *)
EmulatorTypeOK ==
    /\ phase \in {"load", "refused", "warmup", "visible", "vblank", "stopped"}
    /\ in \in [at : Nat, good : BOOLEAN]
    /\ PrgTypeOK(prg_rom)
    /\ left \in Nat
    /\ frame \in 0 .. MaxFrames
    /\ phase \notin {"load", "refused"} => MachineTypeOK
=============================================================================
