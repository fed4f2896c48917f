SPECIFICATION Spec
CONSTANTS
    Media <- mc_Media
    RawHeaders <- mc_RawHeaders
    Lines <- mc_Lines
    MaxRuns = 2
PROPERTY OthersUntouched
CHECK_DEADLOCK FALSE
