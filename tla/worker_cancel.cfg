SPECIFICATION Spec
CONSTANT N = 1
CHECK_DEADLOCK FALSE
PROPERTY CanceledRunEnds
