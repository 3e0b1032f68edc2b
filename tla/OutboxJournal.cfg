SPECIFICATION Spec
CONSTANTS
  Recording = {r1}
  Opus = {r1}
  Server = {mac}
  NoServer = NoServer
  NoConn = NoConn
  MaxPackets = 4
  PartAudio = 2
  PartPackets = 3
  Preroll = 1
  MaxStorage = 6
  MaxQueued = 2
  MaxOps = 3
  Faults = {"journal", "directory"}
INVARIANTS
  TypeOK
  FlushedIsKept
  RetriesAreIdentical
  SealedIsAcceptable
  PartsAreOrdered
  QueueIsAccounted
  StorageIsBounded
PROPERTIES
  SealedIsImmutable
