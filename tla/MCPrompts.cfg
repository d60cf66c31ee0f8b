\* Three commands of most kinds and one other act of the user.
SPECIFICATION FairSpec
CONSTANTS
  Kinds = {"prompt", "slash", "bash", "agent", "cron", "incoming"}
  MaxCommands = 3
  MaxActs = 1
CHECK_DEADLOCK FALSE
INVARIANTS TypeOK GuardAgrees OneQuery NothingLost ToldOnce
PROPERTIES QueueDrains
