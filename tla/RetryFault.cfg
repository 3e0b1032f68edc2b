SPECIFICATION Spec
CONSTANTS
  Recording = {r1}
  Opus = {}
  Server = {mac1}
  NoServer = NoServer
  NoConn = NoConn
  MaxPackets = 1
  PartAudio = 1
  PartPackets = 2
  Preroll = 1
  MaxStorage = 4
  MaxQueued = 1
  MaxOps = 1
  Faults = {"directory"}
INVARIANTS
  RetryArmed
