CONSTANT BufMax = 1
SPECIFICATION MCSpec
INVARIANTS KeptOnlyIfFELeft HandedOverQuiet EndedForCause
PROPERTIES StopEndsOrStalls SessionEnds
CHECK_DEADLOCK FALSE
