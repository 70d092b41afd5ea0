SPECIFICATION Spec
CONSTANTS
  Archive <- McArchive
  Paths <- McPaths
  Script <- McScript
  Fds = {3, 4}
  Blocks = {b1, b2, b3}
  NULL = NULL
INVARIANTS
  TypeOK
  NothingLeaks
  ServedIsOpen
  RunsWholeScript
  PathsResolve
PROPERTIES
  LoadIsShort
  LoadEnds
  IsFileTable
CHECK_DEADLOCK FALSE
