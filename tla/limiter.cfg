\* Two addresses, two threads, a limit of two failures in a window of two
\* seconds of two ticks each.
SPECIFICATION Spec
CONSTANTS
  Thread = {t1, t2}
  Ip = {i1, i2}
  MAX_FAILURES = 2
  WINDOW = 4
  Second = 2
  MaxTime = 7
  None = None
SYMMETRY Symmetric
INVARIANTS LimiterInvariant GuessBound CountsEveryGuess LockoutEnds
