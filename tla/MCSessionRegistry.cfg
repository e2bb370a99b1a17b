CONSTANTS
  Sessions = {s1}
  Stories = {x1, x2}
  NoStory = NoStory
  Unchosen = Unchosen
  NoSession = NoSession
  Conns = {c1, c2}
  Requests = {r1}
  Reaper = Reaper
  Contents = {s1}
  Faults = {"db", "redis", "crash"}
SPECIFICATION Spec
INVARIANTS TypeOK ChoiceSticks EndsAnnouncedAreReal StartShownAfterMeta
PROPERTIES EndedOnce ImplementsRecord
CHECK_DEADLOCK FALSE
