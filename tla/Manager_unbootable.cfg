\* No fault at all, after a boot that refused the startup configuration.
SPECIFICATION UnbootableSpec
CONSTANTS
  acl = acl
  nic = nic
  Settings <- MCSettings
  Valid <- MCValid
  Edits <- MCEdits
  Forced <- MCForced
  NoFile = NoFile
  NoProc = NoProc
  Procs = {p1, p2}
  Faults = {}
SYMMETRY ProcSymmetry
INVARIANT InStepWithoutFaults
