\* Two commentary requests and one viewer.
SPECIFICATION LiveFairSpec
CONSTANTS
  N = 2
  NoMatch = NoMatch
  None = None
  Viewers = {v1}
  DefaultLimit = 2
  MaxLimit = 2
  RawLimits = {0, 1}
  NotYet = NotYet
INVARIANTS
  LiveTypeOK
  NoGhostEvents
  SubscriberMissesNothing
PROPERTIES
  OnlyReportedScoresChange
  StatusGoesForward
  ListingOnlyGrows
  CommittedIsAnnounced
