SPECIFICATION Spec
CONSTANTS
  Threads = {t1, t2}
  Busy = {t1}
  LineLimit = 2
  MaxAsked = 3
  t1 = t1
  t2 = t2
CHECK_DEADLOCK FALSE
INVARIANTS
  TypeOK
  CallerIsTold
  HandlesBalanced
  QueryWhole
