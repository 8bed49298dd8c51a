SPECIFICATION Spec
CONSTANTS
  NoName = NoName
  Names <- MCNames
  Locations <- MCLocations
  NameOf <- MCNameOf
  Profiles <- MCProfiles
  NodeCount = 3
  NodePart = 3
  EdgePart = 4
  MaxDegree = 1
INVARIANTS
  TypeOK
  NoDoubleCounting
  ReportsAgree
  CallsConserved
  NodesAreTop
  MainCallerKept
  DegreesBounded
\* The report ends.
CHECK_DEADLOCK FALSE
