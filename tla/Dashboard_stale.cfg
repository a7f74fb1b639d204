SPECIFICATION Spec
CONSTANTS
  Sessions = {s1}
  QueueLimit = 2
  MaxCommands = 2
  MaxProgress = 0
INVARIANTS
  PresentsCurrentReplay
