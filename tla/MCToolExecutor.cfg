\* Three calls of one response: read-only Bash commands and skills.
SPECIFICATION Spec
CONSTANTS
  Kinds = {"ls", "skill"}
  SafeKinds = {"ls"}
  BashKinds = {"ls"}
  ModifyingKinds = {"skill"}
  UnknownKinds = {}
  CancelKinds = {"ls"}
  AbortReasons = {"user", "interrupt"}
  MaxCalls = 3
  MaxAttempts = 1
  MaxGivenUp = 1
  MaxProgress = 0
CHECK_DEADLOCK FALSE
INVARIANTS ErrorAnswersOnce
PROPERTIES KeepsSchedule
