CONSTANTS
  ModeBytes <- MCModeBytes
  Clock = 40000000
  Rates <- MCRates
  Configured <- MCConfigured
  Filters = {"all", "one"}
  PollMax = 2
  SlowReset = TRUE
SPECIFICATION FairSpec
INVARIANTS
  ModeAgreement
  WritesInConfig
  RatesAgree
  ModeKept
PROPERTIES
  ThroughConfig
  CommandAnswered
