SPECIFICATION FairSpec
CONSTANTS
  Kinds = {"partial", "sequenced"}
  LastNumber = 5
  Promotion = 2
  MaxBackoff = 3
  MaxEvents = 4
INVARIANTS
  OneWayForward
  PricedBookIsWhole
PROPERTIES
  BackoffSurvivesFlapping
  VenueComesBack
