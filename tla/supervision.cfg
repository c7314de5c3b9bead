SPECIFICATION Spec
CONSTANTS
  Instances = {"engine"}
  Pids = {p1, p2}
  NoPid = NoPid
  Callers = {c1, c2}
  MaxRuns = 3
  MaxCrashes = 2
SYMMETRY Symmetry
INVARIANTS TypeOK RowsAgree OverMeansDead OneEngine NobodyForgotten StopCannotHang
PROPERTIES SparesOthers
CHECK_DEADLOCK FALSE
