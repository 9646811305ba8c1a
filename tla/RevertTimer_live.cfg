\* Liveness: one session, cut off and replaced between its commands.
SPECIFICATION FairTimerSpec
CONSTANTS
  acl = acl
  Settings <- MCSettings
  Valid <- MCValid
  Edits <- MCEdits
  Calls <- MCCalls
  Forced <- MCSettings
  NoFile = NoFile
  NoProc = NoProc
  Procs <- MCProcs
  Sessions = {s1}
  Dogs = {d1, d2}
  Faults = {"die", "power"}
  Upsets = {"hangup"}
INVARIANT PromiseKept
PROPERTIES
  PromiseResolved
  EveryCallEnds
