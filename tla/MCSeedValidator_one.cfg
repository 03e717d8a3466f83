\* One validator, two cells on one thread, every outcome, up to two signals.
SPECIFICATION FairSpec
CONSTANTS
    Validators = {v}
    Cells = {c1, c2}
    Options <- AllOptions
    Jobs = 1
    MaxSignals = 2
    ProcessEnds = {"match", "invalid", "differ", "crash", "slow", "error"}
INVARIANTS TypeOK StoppedIsNotFailed  PassedMeansAllRan
PROPERTIES ForeignTapesStay StopEnds
