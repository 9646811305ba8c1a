\* Eight documents, every way to get from one to another, one command failing.
CONSTANTS
  Names <- MCNames
  Kind <- MCKind
  Rank <- MCRank
  MaxSeq = 40
  Documents <- MCDocuments
  Startups <- MCStartups
  MaxChanges = 4
  MaxFailures = 1
SPECIFICATION Spec
INVARIANTS
  InForce
  AsRecorded
  NoneRefused
PROPERTIES
  BystandersKeepRunning
CHECK_DEADLOCK FALSE
