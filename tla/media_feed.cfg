CONSTANTS
  Viewers = {v1, v2}
  BufferSize = 2
  MaxSeen = 2
  Window = 2
  MaxChunks = 4
  MaxAttempts = 2
  MaxSegments = 4
  None = None
SYMMETRY Symmetry
SPECIFICATION Spec
INVARIANTS
  TypeOK
  NoHoles
  LateJoinerStartsClean
  TablesBeforeMedia
  SegmentsOnce
  NoSegmentSkipped
CHECK_DEADLOCK FALSE
