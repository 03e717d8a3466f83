SPECIFICATION Spec
CONSTANTS
    Ids = {o1, o2, o3}
    Sizes = {1, 2}
    MaxPrice = 2
    None = None
SYMMETRY IdSymmetry
VIEW Position
INVARIANTS BoundsCover OnlyTakerCrosses IndexIsBook ShadowIsBook QueriesAnswerBook
PROPERTY EngineConforms
