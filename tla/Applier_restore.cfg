\* One change, one command failing: back to what was before?
CONSTANTS
  Names <- MCNames
  Kind <- MCKind
  Rank <- MCRank
  MaxSeq = 40
  Documents <- Extension
  Startups <- BeforeIt
  MaxChanges = 2
  MaxFailures = 1
SPECIFICATION Spec
PROPERTY PreviousStateRestored
CHECK_DEADLOCK FALSE
