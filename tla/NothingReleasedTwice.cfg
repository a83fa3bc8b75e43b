SPECIFICATION Spec
CONSTANTS
  N = 2
  Layouts <- MCLayouts
  ErrorLimit = 1
INVARIANT NothingReleasedTwice
