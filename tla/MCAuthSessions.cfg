SPECIFICATION Spec
CONSTANTS
  r1 = r1
  r2 = r2
  r3 = r3
  r4 = r4
  t1 = t1
  t2 = t2
  Users = {u1, u2}
  Tabs = {t1, t2}
  None = None
  Requests = {r1, r2, r3, r4}
  TabOf <- MCTabOf
  Faults = {"db", "net"}
INVARIANTS TypeOK CookieWorks NoSessionLeftBehind FirstUserAlone
SYMMETRY Symmetry
CHECK_DEADLOCK FALSE
