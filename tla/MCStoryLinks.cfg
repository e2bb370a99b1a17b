SPECIFICATION Spec
CONSTANTS
  u1 = u1
  u2 = u2
  r1 = r1
  r2 = r2
  r3 = r3
  Stories = {s1, s2, s3}
  Sprints = {p1, p2}
  Epics = {e1, e2}
  Names = {n1, n2}
  Users = {u1, u2}
  None = None
  FirstStories = {s1, s2}
  FirstSprint = p1
  FirstEpic = e1
  FirstName = n1
  Poster = u1
  LastDay = 2
  Requests = {r1, r2, r3}
  Author <- MCAuthor
  Faults = {"log", "cut"}
INVARIANTS TypeOK RelationsLogged CommentsAccounted CatalogSound
CHECK_DEADLOCK FALSE
