\* A re-arm may meet the expiry of the armed timer; nothing fails.
SPECIFICATION TimerSpec
CONSTANTS
  acl = acl
  Settings <- MCSettings
  Valid <- MCValid
  Edits <- MCEdits
  Calls <- MCCalls
  Forced <- MCSettings
  NoFile = NoFile
  NoProc = NoProc
  Procs <- MCProcs
  Sessions = {s1}
  Dogs = {d1, d2}
  Faults = {"die"}
  Upsets = {"overlap"}
INVARIANT ArmedHasSnapshot
