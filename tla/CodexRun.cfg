\* One Codex run with up to two troubles (a repeated call is two of them), one
\* resume and one refresh of the credential.
CONSTANTS
  MaxRefreshes = 1
  MaxResumes = 1
  MaxTroubles = 2
SPECIFICATION Spec
\* A run that has ended, or waits and is not resumed, stays as it is.
CHECK_DEADLOCK FALSE
INVARIANTS
  ExecutesOnce
  DeliversVerifiedWork
  PhaseIsWatched
PROPERTY
  BundleIsCurrent
