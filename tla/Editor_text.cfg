\* The same sessions; a vlan with a description is shown and pasted.
CONSTANTS
  Names <- MCNames
  Kind <- MCKind
  Rank <- MCRank
  MaxSeq = 50
  AddrBits = 2
  MaxPort = 4
  Sessions = {"terminal", "remote"}
  Commands <- MCCommands
  Documents <- MCDocuments
  MaxServers = 3
  MaxChanges = 1
SPECIFICATION EditorSpec
INVARIANT FullRoundTrip
CHECK_DEADLOCK FALSE
