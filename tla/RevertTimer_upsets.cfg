\* Everything overlaps and anything may fail.
SPECIFICATION TimerSpec
CONSTANTS
  acl = acl
  Settings <- MCSettings
  Valid <- MCValid
  Edits <- MCEdits
  Calls <- MCAdds
  Forced <- MCSettings
  NoFile = NoFile
  NoProc = NoProc
  Procs <- MCProcs
  Sessions = {s1}
  Dogs = {d1, d2}
  Faults = {"die", "apply", "write"}
  Upsets = {"hangup", "cutoff", "overlap", "files"}
SYMMETRY TimerSymmetry
INVARIANT TimerTypeOK
PROPERTY UsesManager
