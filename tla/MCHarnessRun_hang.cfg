SPECIFICATION FairRun
CONSTANTS
    Hashes = {h1}
    InitKinds = {"plain"}
PROPERTY HangIsReported
