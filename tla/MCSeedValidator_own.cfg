\* Two validators select the same cell.
SPECIFICATION Spec
CONSTANTS
    Validators = {v, w}
    Cells = {c}
    Options <- KeepOrRemove
    Jobs = 1
    MaxSignals = 0
    ProcessEnds = {"match"}
PROPERTIES RemovesOnlyItsOwn
