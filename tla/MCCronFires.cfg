\* One session, resumed after a crash: a task due once and a recurring one that expires; one
\* operation on the file may fail.
SPECIFICATION Spec
CONSTANTS
  Sessions = {s1}
  None = None
  Tasks = {"once", "hourly"}
  Recurring = {"hourly"}
  InitialTasks = {"hourly"}
  MaxAge = 2
  Timely = TRUE
  MaxExits = 1
  MaxNow = 2
  MaxErrors = 1
  MaxEdits = 2
CHECK_DEADLOCK FALSE
PROPERTIES FiresOnceUnlessClobbered SettledNeverFires
