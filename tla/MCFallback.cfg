\* Two calls over two attempts at the response, with progress messages.
SPECIFICATION FairSpec
CONSTANTS
  Kinds = {"read", "bash", "skill"}
  SafeKinds = {"read"}
  BashKinds = {"bash"}
  ModifyingKinds = {"skill"}
  UnknownKinds = {}
  CancelKinds = {"read"}
  AbortReasons = {"interrupt"}
  MaxCalls = 2
  MaxAttempts = 2
  MaxGivenUp = 2
  MaxProgress = 1
CHECK_DEADLOCK FALSE
INVARIANTS TurnReportsAll
PROPERTIES NoWorkAfterAbort RemainingEnds
