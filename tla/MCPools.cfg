CONSTANTS
  Receivers = {r1}
  Senders = {s1, s2}
  Bodies = {h1}
  Objects = {o1, o2}
  NoObject = NoObject
  Chunks = 2
  MaxRounds <- MCMaxRounds
SPECIFICATION Spec
SYMMETRY Symmetry
INVARIANTS ObjectsExclusive OwnData
CHECK_DEADLOCK FALSE
