SPECIFICATION Spec
CONSTANTS
    Size = 2
    Sample = {0, 1, 127, 128, 129, 255}
INVARIANTS
    WideTypeOK
    AdditionExact
    SubtractionExact
    ComparisonOrders
    DoublingExact
    HalvingExact
