SPECIFICATION Spec
CONSTANTS
  owner = owner  admin = admin  s1 = s1  s2 = s2
  r1 = r1  r2 = r2  t1 = t1  t2 = t2  None = None
  Accounts = {owner, admin}
  Sessions = {s1, s2}
  Requests = {r1, r2}
  Shells = {t1, t2}
  Idle = 1  Absolute = 2  Touch = 1  TTL = 1
  MaxTime = 2
SYMMETRY Symmetry
INVARIANTS AccountsAreSound
PROPERTIES RefusalIsFinal NoServiceAfterDisabling
CHECK_DEADLOCK FALSE
