SPECIFICATION Spec
CONSTANTS
  Recording = {r1}
  Opus = {r1}
  Mac = mac
  NoServer = NoServer
  NoConn = NoConn
  MaxPackets = 2
  PartAudio = 1
  PartPackets = 2
  Preroll = 1
  MaxStorage = 5
  MaxQueued = 1
  MaxOps = 0
  Faults = {}
  Handler = {h1, h2}
  NoBody = NoBody
  Free = Free
  Permits = 2
  Reserve = 1
  Allowance = 2
  Capacity = 5
INVARIANTS
  NothingIsLost
  RetriesAreAccepted
  AnswersMatchRequests
PROPERTIES
  ImplementsOutbox
