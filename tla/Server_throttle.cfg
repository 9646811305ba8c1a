\* The limit of the code; two logins of one address served at the same time.
SPECIFICATION ServerSpec
CONSTANTS
  r1 = r1
  r2 = r2
  here = here
  Requests = {r1, r2}
  Address <- MCAddress
  Users = {admin}
  Tokens = {t1}
  Limit = 5
  Minute = 2
  Lifetime = 2
  Nobody = Nobody
  Size = 2
  Buffer = 2
  Window = 3
  Pages = {g1}
  Word = 16
  MaxTime = 5
  MaxBytes = 2
  None = None
  Programs <- MCPrograms
  Settings = {old, new}
  Pids = {p1, p2, p3}
  Patience = 1
  Nothing = Nothing
INVARIANTS
  FailedLoginsLimited
CHECK_DEADLOCK FALSE
