\* One agent; a CancelTask that fails with the text "connection failed".
CONSTANTS
  Jobs = {j1}
  Calls = {c1, c2, c3}
  Sizes = {1}
  InputPhases = {"", "Failed"}
  AgentIDs <- TaskGUIDs
  FaultTexts <- MCFaultTexts
  MaxFaults = 1
SYMMETRY CallSymmetry
SPECIFICATION CFSpec
CHECK_DEADLOCK FALSE
INVARIANTS
  CancelledJobHasStopped
