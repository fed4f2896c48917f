SPECIFICATION Spec
CONSTANTS
    Media <- mc_Media
    RawHeaders <- mc_RawHeaders
    Lines <- mc_Lines
    MaxRuns = 2
INVARIANT GoodMeansReadable
PROPERTIES LooksOnly RepairSettles
CHECK_DEADLOCK FALSE
