\* One goroutine at a time and every response arrives.
SPECIFICATION Spec
CONSTANTS
  Callers = {c1}
  c1 = c1
  Responses <- MCResponses
  DefaultInterval = 3
  HTTPTimeout = 1
  TransportErrors = FALSE
  MaxCalls = 3
  Horizon = 8
INVARIANTS TypeOK PolicyKept
PROPERTIES KeepsPromise
