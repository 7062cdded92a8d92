SPECIFICATION WalkSpec
INVARIANTS
  VideoIndexLine
CHECK_DEADLOCK FALSE
