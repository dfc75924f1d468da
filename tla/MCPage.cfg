CONSTANTS
  User = {u1, u2}
  Attempt = {a1, a2}
  Toast = {n1, n2}
  Check = {k1, k2}
  NoUser = NoUser
SPECIFICATION PageSpec
INVARIANTS OneAttempt ThemeIsRendered ChoiceSticks
PROPERTIES FormComesBack BannerClears EveryToastGoes
CHECK_DEADLOCK FALSE
