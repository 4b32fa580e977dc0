\* A Schedule and two Cancels of one job.
CONSTANTS
  Jobs = {j1}
  Calls = {c1, c2, c3}
  AgentIDs = {a1}
  Sizes = {2}
  InputPhases = {"", "Running"}
SYMMETRY CallSymmetry
SPECIFICATION Spec
CHECK_DEADLOCK FALSE
INVARIANTS
  CancelIsIdempotent
