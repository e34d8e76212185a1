SPECIFICATION FairSpec
CONSTANTS
  None = none
  Document = {d1}
  Photo = {p1}
  MaxAttempts = 2
  MaxDisruptions = 1
INVARIANTS
  RecordedFilesAreReadable
  LeftoversAreOfCrashes
PROPERTIES
  ImplementsWorkQueue
  PayloadsAreRedacted
  EveryDocumentSettles
CHECK_DEADLOCK FALSE
