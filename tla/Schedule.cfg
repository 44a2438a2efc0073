SPECIFICATION Spec
CONSTANTS
  Entries = {e1, e2, e3}
  NULL = NULL
  MaxPri = 3
  MaxWait = 3
  MaxOverdue = 1
  SigmaDivisor = 2
  SigmaMax = 1
  ReapMaxWakeup = 2
SYMMETRY Symmetry
INVARIANTS Treap CacheFresh WakesInTime
PROPERTIES ImplementsWakeups ServedIsRescheduled
