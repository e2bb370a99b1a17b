CONSTANTS
  Sessions = {s1}
  Stories = {}
  NoStory = NoStory
  Unchosen = Unchosen
  NoSession = NoSession
  Conns = {c1}
  Requests = {}
  Reaper = Reaper
  Contents = {s1}
  Faults = {}
  Viewers = {v1}
  Beating = {}
SPECIFICATION GridSpec
PROPERTY EndedTilesLeave
CHECK_DEADLOCK FALSE
