CONSTANTS
  Command = {p1, p2}
  Digest = {d1, d2}
  Commit = {a, b}
  Hook = {h1, h2}
  Nothing = Nothing
  MaxChanges = 3
SPECIFICATION Spec
SYMMETRY Symmetry
INVARIANTS MergeReadyIsWitnessed ReadyHeadsMet ExecutionReadyIsWitnessed
CHECK_DEADLOCK FALSE
