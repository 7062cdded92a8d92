SPECIFICATION Spec
INVARIANTS
  BurstsOfStream
  DataOfLines
  CaptionsCarried
  StampsRight
  SectionsWithTheirPicture
CHECK_DEADLOCK FALSE
