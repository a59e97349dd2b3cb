\* Two goroutines pass Wait together and exceed the advertised policy.
SPECIFICATION Spec
CONSTANTS
  c1 = c1
  c2 = c2
  Callers = {c1, c2}
  Responses <- MCFewResponses
  DefaultInterval = 2
  HTTPTimeout = 1
  TransportErrors = FALSE
  MaxCalls = 3
  Horizon = 12
INVARIANT PolicyKept
