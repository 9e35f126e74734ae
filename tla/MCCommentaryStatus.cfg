\* One commentary request and the clock.
SPECIFICATION Spec
CONSTANTS
  N = 1
  NoMatch = NoMatch
  None = None
INVARIANT StatusIsDerived
