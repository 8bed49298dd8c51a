SPECIFICATION Spec
CONSTANTS
  Slot <- MCSlot
  Traces <- MCTraces
  Hash <- MCHash
  kMaxStackDepth = 2
  kAssociativity = 2
  kBuckets = 2
  kBufferLength = 9
  Period = 9
  MaxSamples = 5
  NoProfile = NoProfile
INVARIANTS
  TypeOK
  TableOK
  BufferInBounds
  BufferMatches
  StreamOK
  CountMatches
PROPERTIES
  RefinesSampleLog
  CallsAsPromised
  StopReturns
\* The process may abort.
CHECK_DEADLOCK FALSE
