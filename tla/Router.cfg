\* Two processes, every fault, every request; a terminal and a remote session.
SPECIFICATION RouterSpec
CONSTANTS
  acl = acl
  nic = nic
  Settings <- MCSettings
  Valid <- MCValid
  Edits <- MCEdits
  Forced <- MCForced
  NoFile = NoFile
  NoProc = NoProc
  Procs = {p1, p2}
  Faults = {"read", "apply", "write", "die", "power"}
  Names <- MCNames
  Kind <- MCKind
  Rank <- MCRank
  MaxSeq = 50
  AddrBits = 2
  MaxPort = 4
  Sessions = {"terminal", "remote"}
  Commands <- MCCommands
  Documents <- MCDocuments
  MaxServers = 3
  MaxChanges = 2
SYMMETRY ProcSymmetry
INVARIANTS
  TypeOK
  Agreement
  NoStaleCopy
  TruthfulReply
  RunningIsValid
  RoundTrip
  PasteChangesNothing
  AppliedListsFilter
  NoConflicts
  EffectiveIsValid
PROPERTIES
  SavedIsBootable
  AtomicCalls
  AppendedEntryIsLast
CHECK_DEADLOCK FALSE
