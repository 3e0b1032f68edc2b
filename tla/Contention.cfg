SPECIFICATION FairSpec
CONSTANTS
  c1 = c1
  c2 = c2
  a1 = a1
  Capture = {c1}
  Digest = {a1}
  Audio <- SameAudio
  Provider = {e1}
  Off = Off
  Free = Free
  MaxAttempts = 2
  MaxRevision = 1
  Env = {"manual", "crash", "settings"}
INVARIANTS
  TypeOK
  AttemptsCountErrors
PROPERTIES
  EventuallyTranscribed
