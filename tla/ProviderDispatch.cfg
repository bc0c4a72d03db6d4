SPECIFICATION Spec
CONSTANTS
  Chain <- MCChain
  Answers <- MCAnswers
  Configured = {"metered", "keyless"}
  Metered = {"metered"}
  Capabilities = {"quote"}
  Pins = {"metered"}
  Requests = {r1, r2}
  Threshold = 2
  Limit = 2
  Reserve = 1
  MaxStreak = 2
  MaxTotal = 2
SYMMETRY RegistrySymmetry
INVARIANTS
  AllowanceHolds
  AnswersAreTrusted
  BadAnswersTrip
  GraphIsTheWalk
