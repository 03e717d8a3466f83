SPECIFICATION FairRun
CONSTANTS
    Hashes = {h1}
    InitKinds = {"plain", "runtime", "resets"}
INVARIANTS SnapshotDecides FailureIsReported CountedTrialsAreClean
PROPERTIES RuntimeKeepsFaults WatchedHangEnds TrialsAreJudged
