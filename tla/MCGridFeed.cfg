CONSTANTS
  Sessions = {s1, s2}
  Stories = {}
  NoStory = NoStory
  Unchosen = Unchosen
  NoSession = NoSession
  Conns = {c1}
  Requests = {}
  Reaper = Reaper
  Contents = {}
  Faults = {}
  Viewers = {v1}
  Beating = {s1}
SPECIFICATION GridSpec
PROPERTIES BeatingSessionsAppear SilentTilesGreyOut SilentRoomsClosed
CHECK_DEADLOCK FALSE
