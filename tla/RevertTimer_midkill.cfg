\* A command may meet the watchdog at work; nobody dies, nothing fails.
SPECIFICATION TimerSpec
CONSTANTS
  acl = acl
  Settings <- MCSettings
  Valid <- MCValid
  Edits <- MCEdits
  Calls <- MCCalls
  Forced <- MCSettings
  NoFile = NoFile
  NoProc = NoProc
  Procs <- MCProcs
  Sessions = {s1}
  Dogs = {d1, d2}
  Faults = {"die"}
  Upsets = {"overlap"}
INVARIANT QuietAgreement
