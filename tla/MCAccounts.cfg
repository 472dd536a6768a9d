CONSTANTS
  u1 = u1
  u2 = u2
  Users = {u1, u2}
  SessionTokens = {s1, s2}
  LoginTokens = {t1, t2}
  PasskeyNames = {key}
  Authenticators = {k1, k2}
  Counters = {1, 2}
  RecoveryCodes = {code}
  Requests = {r1, r2}
  MaxUnderWay = 1
  None = None
SPECIFICATION MCSpec
INVARIANTS SuperuserKept AssuranceStands CodesComeWithFactors ProofsSpentOnce
PROPERTY LastFactorKept
SYMMETRY Symmetry
CHECK_DEADLOCK FALSE
