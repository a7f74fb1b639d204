SPECIFICATION Spec
CONSTANTS
  Sessions = {s1}
  QueueLimit = 2
  MaxCommands = 2
  MaxProgress = 1
INVARIANTS
  RunSerially
  NoSubmitAfterDestruction
  ClientCountExact
  SettledActivity
PROPERTIES
  AcceptedCommandsRun
  ShutdownCompletes
