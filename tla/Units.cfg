SPECIFICATION Spec
CONSTANTS
    Tests <- AllTests
    Interrupts = 1
INVARIANTS
    MachineTypeOK
    AsExpected
PROPERTIES
    ExceptionIsClean
    AdvanceLeavesNothing
