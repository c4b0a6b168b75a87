SPECIFICATION FairSpec
CONSTANTS
  MaxEvents = 3
  MaxCrashes = 1
INVARIANTS HandshakeKept CarModeIsConfigured
PROPERTIES CleanStart OffroadSettles OnroadSettles
