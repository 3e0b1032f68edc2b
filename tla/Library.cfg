SPECIFICATION Spec
CONSTANTS
  c1 = c1
  c2 = c2
  a1 = a1
  Capture = {c1, c2}
  Digest = {a1}
  Audio <- SameAudio
  Provider = {e1}
  Off = Off
  Free = Free
  MaxAttempts = 1
  MaxRevision = 0
  Env = {"delete", "crash"}
INVARIANTS
  ConversationHasAudio
  CompletedIsImported
  OneJobInFlight
  AttemptsCountErrors
