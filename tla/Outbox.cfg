SPECIFICATION FairSpec
CONSTANTS
  Recording = {r1, r2}
  Opus = {}
  Server = {mac1, mac2}
  NoServer = NoServer
  NoConn = NoConn
  MaxPackets = 1
  PartAudio = 1
  PartPackets = 2
  Preroll = 1
  MaxStorage = 3
  MaxQueued = 1
  MaxOps = 0
  Faults = {"journal"}
INVARIANTS
  OnlyToOwner
  PromptPickup
  RetryArmed
PROPERTIES
  EventualDelivery
