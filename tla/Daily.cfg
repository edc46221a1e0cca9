SPECIFICATION Spec
CONSTANTS
  Records <- ThreeRecords
  Size <- MixedSizes
  MaxSize = 2
  MaxBackups = 2
  MaxAge = 1
  Compress = TRUE
  Days <- ThreeDays
  MaxFaults = 2
  NoFile = NoFile
  NoRecord = NoRecord
INVARIANTS WriterFields NothingLost SegmentsBounded RetentionHolds
PROPERTIES NothingOverwritten
