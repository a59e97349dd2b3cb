\* One request or command at a time with failures, two at a time, several characters.
SPECIFICATION Spec
CONSTANTS
  h1 = h1
  h2 = h2
  Handlers = {h1, h2}
  PerSecond = 2
  Settings <- MCSettings
  Plain = {"a", "_"}
  Absent = Absent
  Empty = Empty
  Torn = Torn

SYMMETRY HandlerSymmetry
INVARIANTS RefreshShowsNow BoundedStaleness NoStepBack LatestIsNewest OwnCharacter
