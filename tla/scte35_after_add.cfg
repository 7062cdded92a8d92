SPECIFICATION ScteSpec
INVARIANTS
  SectionOnItsPid
CHECK_DEADLOCK FALSE
