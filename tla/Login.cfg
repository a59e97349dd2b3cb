\* Logins in two terminals or one after the other, pages that stay open,
\* requests of no page.
SPECIFICATION Spec
CONSTANTS
  l1 = l1
  l2 = l2
  p1 = p1
  p2 = p2
  Logins = {l1, l2}
  PortLists <- MCPortLists
  Requests = {1, 2}
  NoPort = NoPort
  NoLogin = NoLogin
CHECK_DEADLOCK FALSE
INVARIANTS TypeOK OwnCodeOnce NotDisturbed
PROPERTIES LoginReturns TabsSettle
