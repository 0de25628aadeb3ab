SPECIFICATION Spec
CONSTANTS
  Times = {1, 2, 3}
  Names = {"a", "b"}
  Jobs = {j1, j2}
  BatchSize = 2
INVARIANTS TypeOK OnlyLateOrTwinSkipped
