\* Two requests at a time, two browsers, an account and its two sessions.
SPECIFICATION Spec
CONSTANTS
  b1 = b1
  b2 = b2
  a1 = a1
  t1 = t1
  t2 = t2
  r1 = r1
  r2 = r2
  alice = alice
  Null = Null
  Accounts = {a1}
  Names = {alice}
  SessionIds = {t1, t2}
  Browsers = {b1, b2}
  Requests = {r1, r2}
  AccessTTL = 2
  RefreshTTL = 3
SYMMETRY IdSymmetry
INVARIANTS
  TypeOK
  AccessEndsWithSession
  LiveSessionsAreHeld
  ShutOutAtOnce
  NoSessionWithoutRow
  AccountsAreWhole
