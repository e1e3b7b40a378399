\* A launch call repeated while the run is under way.
CONSTANTS
  MaxRefreshes = 1
  MaxResumes = 1
  MaxTroubles = 2
SPECIFICATION Spec
\* A run that has ended, or waits and is not resumed, stays as it is.
CHECK_DEADLOCK FALSE
INVARIANT
  CodexInvokedOnce
