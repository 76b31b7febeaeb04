-------------------------------- MODULE Units --------------------------------
(***************************************************************************)
(* The CPU driven by the scripts of its unit tests, each test from power   *)
(* on, and, when Interrupts is not 0, with NMIs at any moment in between:  *)
(* before a cycle, after it, within an instruction or between two.  The    *)
(* handler is a single RTI, and the script's cycles make room for it.      *)
(***************************************************************************)
EXTENDS Machine, Script

CONSTANTS
    Tests,       \* the tests to run
    Interrupts   \* the most NMIs in a run of a test

ASSUME InterruptsAssumption == Interrupts \in Nat

VARIABLES
    test,   \* the test that is run
    at,     \* the script's step to come
    left,   \* the cycles still to run of the last step
    mark,   \* pc and p at the last Mark
    nmis    \* the NMIs there were

vars == <<cpu, todo, test, at, left, mark, nmis>>

(* A test's mapper answers 0xAA for the NMI vector.  With interrupts, the   *)
(* vector is the handler's address, and the handler is there; a cartridge   *)
(* with a vector of its own keeps it.                                       *)
HandlerAt == \hFFF0

WithHandler(cart) ==
    LET place == [j \in {\h7FF0, \h7FFA, \h7FFB} |->
                    CASE j = \h7FF0 -> k.RTI.IMPL
                      [] j = \h7FFA -> Lo(HandlerAt)
                      [] j = \h7FFB -> Hi(HandlerAt)]
    IN  [cart EXCEPT !.prg = [j \in DOMAIN @ \union DOMAIN place |->
                                IF j \in DOMAIN @ THEN @[j] ELSE place[j]]]

\* The CPU of the tests has neither PPU nor controller.
Unattached == [none |-> TRUE]

CpuOf(t) ==
    PowerOn(MakeBus({}, Unattached, Unattached,
                    IF Interrupts = 0 THEN t.cart ELSE WithHandler(t.cart)))

Init ==
    /\ test \in Tests
    /\ cpu = CpuOf(test)
    /\ todo = 0
    /\ at = 1
    /\ left = 0
    /\ mark = [pc |-> 0, p |-> {}]
    /\ nmis = 0

-----------------------------------------------------------------------------
Ended == at > Len(test.script)

Now == test.script[at]

(* A step of the script that is due: the cycles of the last one are over.   *)
Due(deed) == left = 0 /\ ~Ended /\ Now.do = deed /\ at' = at + 1 /\ UNCHANGED <<test, nmis>>

RunCycles == Due("Cycles") /\ left' = Now.n /\ UNCHANGED <<cpu, todo, mark>>

RunInstruction ==
    Due("Instr") /\ left' = CyclesOfAdvance /\ UNCHANGED <<cpu, todo, mark>>

PutByte ==
    /\ Due("Put")
    /\ cpu' = [cpu EXCEPT !.bus = Write(@, Now.at, Now.v).bus]
    /\ UNCHANGED <<todo, left, mark>>

PutWord ==
    /\ Due("Put16")
    /\ cpu' = [cpu EXCEPT !.bus = Write16(@, Now.at, Now.v).bus]
    /\ UNCHANGED <<todo, left, mark>>

SetMark ==
    Due("Mark") /\ mark' = [pc |-> cpu.pc, p |-> cpu.p] /\ UNCHANGED <<cpu, todo, left>>

PassCheck ==
    /\ ~Ended /\ left = 0
    /\ Now.do \notin Deeds
    /\ at' = at + 1
    /\ UNCHANGED <<cpu, todo, test, left, mark, nmis>>

RunCycle == left > 0 /\ Cycle /\ left' = left - 1 /\ UNCHANGED <<test, at, mark, nmis>>

(* trigger_nmi.  An instruction under way starts again after the handler,   *)
(* whose RTI takes what is left of it, one cycle.  The stack must have room *)
(* for what an NMI pushes: word pushes at 0 lose the return address.        *)
Nmi ==
    /\ nmis < Interrupts
    /\ ~Ended \/ left > 0
    /\ cpu.sp >= 2
    /\ TriggerNmi
    /\ left' = left + (IF todo = 0 \/ StartThrows THEN BaseCycles(Decoded[k.RTI.IMPL])
                                                  ELSE 1 + Count.v - todo)
    /\ nmis' = nmis + 1
    /\ UNCHANGED <<test, at, mark>>

Done == Ended /\ left = 0 /\ UNCHANGED vars

Next ==
    \/ RunCycles \/ RunInstruction \/ PutByte \/ PutWord \/ SetMark \/ PassCheck
    \/ RunCycle \/ Nmi \/ Done

Spec == Init /\ [][Next]_vars

-----------------------------------------------------------------------------
Shows(want, field) ==
    CASE field \in Flag -> want[field] = (field \in cpu.p)
      [] field = "p"    -> want[field] = StatusByte(cpu.p)
      [] OTHER          -> want[field] = cpu[field]

Holds(step) ==
    CASE step.do = "Is"        -> \A field \in DOMAIN step.want : Shows(step.want, field)
      [] step.do = "IsNot"     -> \A field \in DOMAIN step.want : ~Shows(step.want, field)
      [] step.do = "Mem"       -> Read(cpu.bus, step.at).v = step.v
      [] step.do = "Mem16"     -> Read16(cpu.bus, step.at).v = step.v
      [] step.do = "Ahead"     -> Read16(cpu.bus, cpu.pc).v = step.v
      [] step.do = "Top"       -> TopOfStack(cpu).v = step.v
      [] step.do = "TopMarked" -> TopOfStack(cpu).v = StatusByte(mark.p)
      [] step.do = "TopMoved"  -> TopOfStack16(cpu).v = mark.pc + step.d
      [] step.do = "Moved"     -> cpu.pc = mark.pc + step.d
      [] step.do = "SameFlags" -> cpu.p = mark.p
      [] step.do = "NewFlags"  -> cpu.p # mark.p
      [] step.do = "Prints"    -> /\ step.op = Instruction.op /\ step.mode = Instruction.mode
                                   /\ step.v = Printed(Fetched, Instruction).v
      [] OTHER -> TRUE

(* Every REQUIRE of every test holds when its step is due; with Interrupts  *)
(* it does so wherever the NMIs came, also in the middle of an instruction: *)
(* an NMI whose handler returns changes nothing that a program can see but  *)
(* the time it takes (lib/cpu/alu.cpp:491, app/test-cpu.cpp).               *)
AsExpected == left = 0 /\ ~Ended => Holds(Now)

(* advance_instruction, as the tests call it, ends between two instructions *)
(* wherever the NMIs came: the cycles it asked for beforehand are those the *)
(* instruction took (alu.cpp:472, "leaving no remaining cycles").           *)
AdvanceLeavesNothing ==
    [][left = 1 /\ left' = 0 /\ at > 1 /\ test.script[at - 1].do = "Instr" => todo' = 0]_vars

-----------------------------------------------------------------------------
(* "5 (+1 if page crossed)": the comment on the (indirect),Y opcodes        *)
(* (decoder.cpp:58); the page is that of the address in the zero page.      *)
IndirectIndexedCycles ==
    [][todo = 0 /\ todo' > 0 /\ Opcode.v \in Valid /\ Op \in Reads /\ Instruction.mode = "INDY" =>
        LET base == Through(Read(cpu.bus, Word(cpu.pc + 1))).v
        IN  todo' + 1 = 5 + One(CrossedPage(base, Word(base + cpu.y)))]_vars
=============================================================================
