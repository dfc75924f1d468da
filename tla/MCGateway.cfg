CONSTANTS
  User = {u1, u2}
  Token = {t1, t2, t3}
  Request = {r1, r2}
  NoUser = NoUser
  NoToken = NoToken
  RefreshTTL = 1
  AccessTTL = 1
  MaxTime = 2
  MaxPgAccounts = 1
  TTL = 3
  MaxStoreTime = 7
  Proxy = Proxy
  Trusted = "list"
  Limit = 2
  Interval = 3
  MaxLag = 1
  MaxLimiterTime = 4
  MaxAttempts = 4
SPECIFICATION GatewaySpec
SYMMETRY Symmetry
INVARIANTS SessionInv OneCredential StoresAgree PgIsStricter BurstIsBounded KeyBudget RetryAfterSuffices
PROPERTIES SignOutTakesEffect WithdrawalIsFinal LedgerSpec
CHECK_DEADLOCK FALSE
