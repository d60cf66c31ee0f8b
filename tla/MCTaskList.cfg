\* Two agents and two tasks: any three calls, one agent killed.
SPECIFICATION FairSpec
CONSTANTS
  Agents = {a1, a2}
  NoOne = NoOne
  Torn = Torn
  InitialTasks = 2
  Kinds = {"create", "claim", "reset", "hide", "start", "complete", "delete", "block", "unassign"}
  MaxCalls = 3
  MaxKills = 1
CHECK_DEADLOCK FALSE
INVARIANTS TypeOK UpdatesMerge IdsNeverReused BlocksAgree
PROPERTIES ClaimedOnce CallsEnd
