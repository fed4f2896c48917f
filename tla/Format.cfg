SPECIFICATION Spec
CONSTANTS
    Disks <- mc_Disks
    Lines <- mc_Lines
    Word = 1073741824
INVARIANTS MountsBack SparesBadBlocks SuccessIsWhole
PROPERTY KeepsToItsPartition
CHECK_DEADLOCK FALSE
