SPECIFICATION Spec
CONSTANT MaxEvents = 3
INVARIANTS TypeOK EveryCallAccounted TranscriptHonest SpendBounded
PROPERTY UndisturbedWaitEnds
CHECK_DEADLOCK FALSE
