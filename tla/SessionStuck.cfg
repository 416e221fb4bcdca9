SPECIFICATION Spec
CONSTANT MaxEvents = 2
PROPERTY WaitingEnds
CHECK_DEADLOCK FALSE
