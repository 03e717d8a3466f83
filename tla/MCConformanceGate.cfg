SPECIFICATION Spec
CONSTANTS
    Engines <- AllEngines
    Ids = {1, 2, 3}
    Unknown = 4
    Plans <- MCPlans
    TicksOf <- MCTicks
    Quantities = {1, 2}
    Table = 2
VIEW Position
INVARIANTS QueriesAnswerBook ShadowIsBook
PROPERTY EveryEngineConforms
