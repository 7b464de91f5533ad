CONSTANTS
  a = a
  b = b
  c = c
  o = o
  h1 = h1
  h2 = h2
  s1 = s1
  x = x
  y = y
  Thread = {a, b, c}
  Std = {o}
  Heap = {h1, h2, x, y}
  Bare = {s1}
  PoolOrder <- MCPool
  Spare = {m}
  None = None
  Calls <- MCCalls
  MaxHold = 1
  Habits = {}
SPECIFICATION Spec
INVARIANTS OneThread NoCircle StackSound CallsLeaveNothing NoFreed
CHECK_DEADLOCK FALSE
