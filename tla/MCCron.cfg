\* Two sessions, one task that is due once; stale locks, a crash or a stop.
SPECIFICATION FairSpec
CONSTANTS
  Sessions = {s1, s2}
  None = None
  Tasks = {"once"}
  Recurring = {}
  InitialTasks = {"once"}
  MaxAge = 1
  Timely = FALSE
  MaxExits = 1
  MaxNow = 1
  MaxErrors = 0
  MaxEdits = 0
CHECK_DEADLOCK FALSE
INVARIANTS OneOwnerUnlessRecovered
PROPERTIES DueIsHandled
