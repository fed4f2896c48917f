CONSTANT NmAlBlks = 6
SPECIFICATION Spec
INVARIANTS ScanFindsFit
PROPERTIES ScanEnds
CHECK_DEADLOCK FALSE
