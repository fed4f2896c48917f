SPECIFICATION Spec
CONSTANTS
    Disks <- mc_Disks
    Lines <- mc_Lines
    Word = 1073741824
PROPERTY OthersKeepToPartition
CHECK_DEADLOCK FALSE
