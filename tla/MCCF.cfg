\* One job of up to two agents, three invocations, two failed API calls with either
\* kind of text: Cancels that got half-way and their repetition, and Schedules of up to one
\* agent that race or are refused.
CONSTANTS
  Jobs = {j1}
  Calls = {c1, c2, c3}
  Sizes = {0, 1, 2}
  InputPhases = {"", "Failed"}
  AgentIDs <- TaskGUIDs
  FaultTexts <- MCFaultTexts
  MaxFaults = 2
SYMMETRY CallSymmetry
SPECIFICATION CFSpec
CONSTRAINT RacesAreSmall
CHECK_DEADLOCK FALSE
INVARIANTS
  CFInv
  AtMostOneScheduled
  RunningIsWatched
  CancelSticks
  RunningTasksAreAccountedFor
  CancelFailsOnlyOnFault
  SucceededTasks
PROPERTIES
  AtomicSpec
