\* One signal, anywhere in the main thread.
SPECIFICATION FairSpec
CONSTANTS
    Validators = {v}
    Cells = {c}
    Options <- FailFastOrNot
    Jobs = 1
    MaxSignals = 1
    ProcessEnds = {"match"}
PROPERTIES SignalStopsTheRun
