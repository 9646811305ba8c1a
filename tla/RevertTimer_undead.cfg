\* One command after the other; a system command fails.
SPECIFICATION TimerSpec
CONSTANTS
  acl = acl
  Settings <- MCSettings
  Valid <- MCValid
  Edits <- MCEdits
  Calls <- MCCalls
  Forced <- MCSettings
  NoFile = NoFile
  NoProc = NoProc
  Procs <- MCProcs
  Sessions = {s1}
  Dogs = {d1, d2}
  Faults = {"die", "apply"}
  Upsets = {}
INVARIANT PendingIsArmed
