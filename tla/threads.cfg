SPECIFICATION FairSpec
CONSTANTS
  Callers = {m, p}
  Main = m
  Pool = {a}
  Heap = {h}
  Static = {s}
  None = none
  Incr = 1
  MaxSlots = 2
  Calls <- MCCalls
  Habits = {"nomem", "nothread"}
INVARIANT ListExact
INVARIANT EndsBeforeClose
PROPERTY OnceBefore
PROPERTY MutexGivenBack
CHECK_DEADLOCK FALSE
