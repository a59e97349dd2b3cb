\* One tab, two requests at a time.
SPECIFICATION FairSpec
CONSTANTS
  TTL = 1
  Texts = {t1, t2}
  None = None
  MaxInFlight = 2
  MaxClicks = 4
  MaxVersion = 2
  MaxTime = 3
CHECK_DEADLOCK FALSE
INVARIANTS TypeOK PlanIsOfItem RefreshIsShown AgreesWithCookie NotRefusedEarly
PROPERTIES BusyEnds
