SPECIFICATION Spec
CONSTANTS
  Base = 4
  SlotBytes = 3
  IntBytes = 2
  Period = 9
  Profiles <- MCProfiles
INVARIANTS
  TypeOK
  LocationsDistinct
  AcceptedIsWhole
  FailedIsCut
PROPERTIES
  ReadEnds
\* The reader stops at the end of the profile.
CHECK_DEADLOCK FALSE
