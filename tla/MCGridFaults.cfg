CONSTANTS
  Sessions = {s1}
  Stories = {}
  NoStory = NoStory
  Unchosen = Unchosen
  NoSession = NoSession
  Conns = {c1, c2}
  Requests = {}
  Reaper = Reaper
  Contents = {s1}
  Faults = {"db", "redis", "crash"}
  Viewers = {v1}
  Beating = {}
SPECIFICATION GridSpec
INVARIANTS ViewTypeOK EndedTilesAreTrue
PROPERTY SilentSessionsEnd
CHECK_DEADLOCK FALSE
