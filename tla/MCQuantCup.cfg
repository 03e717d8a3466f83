\* The empty book and four deep ones.
SPECIFICATION Spec
CONSTANTS
    Ids = {1, 2, 3, 4, 5}
    IdSpace = 8
    Quantities = {1, 2, 4}
    kNumPricePoints = 4
    kMaxNumOrders = 6
    ShortLen = 3
    FreeLen = 2
    Workload <- MCWorkload
INVARIANTS TypeOK ShadowIsBook SidesNeverMix PrebuiltIsMessage QueriesAnswerBook ArenaHasRoom
PROPERTY Contract
