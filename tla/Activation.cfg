SPECIFICATION Spec
CONSTANTS
  Editor = {e1, e2}
  Session = {s1}
  Managed = {m1}
  External = {n1}
  Embedding = {x1}
  Remote = {}
  Embedded = {}
  Host = {h1}
  MaxCards = 3
  MaxWrites = 3
SYMMETRY Interchangeable
INVARIANTS
  SessionsAreServed
  NoBlindEdit
