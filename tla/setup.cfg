SPECIFICATION Spec
CONSTANTS
  Builds = {first, second, bare}
  Carrying = {first, second}
  None = None
  first = first
  second = second
  bare = bare
  IgnoredMay = TRUE
SYMMETRY Symmetry
INVARIANTS
  OutcomeIsTrue
  RestartIsTold
  PackageIsTrusted
  NothingDangles
