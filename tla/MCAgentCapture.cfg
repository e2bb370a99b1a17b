SPECIFICATION AgentSpec
CONSTANTS
  t1 = t1
  t2 = t2
  l1 = l1
  l2 = l2
  s1 = s1
  s2 = s2
  Threads = {t1, t2}
  Lines = {l1, l2}
  Owner <- MCOwner
  MaxClock = 2
  MaxFile = 4
  Window = 1
  IdleAfter = 0
  ListLimit = 1
  Faults = {"db", "read", "pump"}
  Sessions = {s1, s2}
  MaxMillis = 3
  MaxPart = 3
  SessionOf <- MCSessionOf
  Silent = {3}
  Limit = 2
  SeenMax = 2
  OpenCodeFaults = {"db", "cut", "pump"}
INVARIANTS AgentTypeOK SessionsMakeSense PartsExact
CHECK_DEADLOCK FALSE
