SPECIFICATION Spec
CONSTANTS
    Files <- MCFiles
    Foreign <- MCForeign
    BUFSZ = 12
    MACB_BLOCKSZ = 6
    MAXLINELEN = 7
    MAXRUN = 5
    MaxCopies = 3
INVARIANTS
    CopiedIsTheFile
    ExitTellsTheTruth
PROPERTIES
    RefusedSparesTheOld
CHECK_DEADLOCK FALSE
