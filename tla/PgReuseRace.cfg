CONSTANTS
  User = {u1, u2}
  Token = {t1, t2, t3}
  Request = {r1, r2}
  NoUser = NoUser
  NoToken = NoToken
  RefreshTTL = 1
  AccessTTL = 1
  MaxTime = 2
SPECIFICATION Spec
CHECK_DEADLOCK FALSE
INVARIANT NoLiveAfterReuse
