SPECIFICATION Spec
CONSTANTS
  Senders = {s1}
  Reconciler = reconciler
  MaxAttempts = 2
  NudgeCap = 2
  MaxSends = 1
  MaxFaults = 1
CHECK_DEADLOCK FALSE
INVARIANTS UnreadIsCovered PromptsAreBounded
PROPERTIES EveryWakeEnds IdleIsPrompted
