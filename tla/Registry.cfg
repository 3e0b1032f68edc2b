SPECIFICATION Spec
CONSTANTS
  Editor = {e1, e2}
  Session = {s1}
  Managed = {}
  External = {n1}
  Embedding = {x1}
  Remote = {r1}
  Embedded = {d0}
  Host = {h1, h2}
  MaxCards = 3
  MaxWrites = 3
SYMMETRY Interchangeable
INVARIANTS
  TypeOK
  KeysResolve
  PipelineRuns
