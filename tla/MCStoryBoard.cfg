SPECIFICATION Spec
CONSTANTS
  u1 = u1
  r1 = r1
  r2 = r2
  r3 = r3
  Statuses = {"todo", "in_progress"}
  Indexes = {1, 2}
  Stories = {s1, s2}
  NoStory = NoStory
  Existing = {s1}
  Users = {u1}
  Nobody = Nobody
  Requests = {r1, r2, r3}
  Author <- MCAuthor
  Tools <- MCTools
  Faults = {"log", "cut"}
SYMMETRY Symmetry
INVARIANTS TypeOK HistoryExact CriteriaIntact
PROPERTIES ImplementsLedger
CHECK_DEADLOCK FALSE
