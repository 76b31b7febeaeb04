SPECIFICATION Spec
CONSTANTS
    Tests <- IndirectTests
    Interrupts = 0
PROPERTIES IndirectIndexedCycles
