CONSTANTS
  Agents = {a1, a2}
  Calls = {c1, c2}
  Kinds = {"exec", "server", "reply", "wakeup", "recurring"}
SPECIFICATION FairSpec
INVARIANT AnsweredOnce
INVARIANT NotResurrected
INVARIANT RecurringKept
PROPERTY WakeupFires
