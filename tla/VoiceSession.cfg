CONSTANTS
  MaxAttempts = 4
  MaxCandidates = 1
  BadCandidates = FALSE
  MaxChanges = 2
  MaxTracks = 1
SPECIFICATION FairSessionSpec
INVARIANTS DeferredOfferSent
PROPERTIES RecoverySafe SessionSettles RecoveryDecides
CHECK_DEADLOCK FALSE
