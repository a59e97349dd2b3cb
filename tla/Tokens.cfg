\* A server with two handlers and the command-line program, never both at a
\* time, with lost replies, failing saves, kills and restarts.
SPECIFICATION FairSpec
CONSTANTS
  server = server
  cli = cli
  h1 = h1
  h2 = h2
  cmd = cmd
  Procs = {server, cli}
  Threads = {h1, h2, cmd}
  Owner <- Sharing
  Servers = {server}
  Tokens <- MCTokens
  Seed <- MCSeed
  Absent = Absent
  Empty = Empty
  Torn = Torn
  None = None
  Unavailable = Unavailable
  Revoked = Revoked
  Replies = {"rotate", "keep", "omit"}
  Exclusive = TRUE
  MaxMishaps = 2
  MaxGrants = 3
INVARIANTS TypeOK RefusedForGood StoredIsLive NeverTorn
PROPERTIES NoReplay ExistingFileWins CallReturns SavesAtomically
