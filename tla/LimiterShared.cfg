\* Two goroutines share the limiter; requests may be lost.
SPECIFICATION FairSpec
CONSTANTS
  c1 = c1
  c2 = c2
  Callers = {c1, c2}
  Responses <- MCFewResponses
  DefaultInterval = 2
  HTTPTimeout = 1
  TransportErrors = TRUE
  MaxCalls = 2
  Horizon = 5
INVARIANTS SelfPaced HeedsWhatItKnew
PROPERTIES CallTerminates
