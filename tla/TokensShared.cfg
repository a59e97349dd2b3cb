\* A server and the command-line program share the token file.
SPECIFICATION Spec
CONSTANTS
  server = server
  cli = cli
  h1 = h1
  h2 = h2
  cmd = cmd
  Procs = {server, cli}
  Threads = {h1, cmd}
  Owner <- Sharing
  Servers = {server}
  Tokens <- MCTokens
  Seed <- MCSeed
  Absent = Absent
  Empty = Empty
  Torn = Torn
  None = None
  Unavailable = Unavailable
  Revoked = Revoked
  Replies = {"rotate"}
  Exclusive = FALSE
  MaxMishaps = 0
  MaxGrants = 3
INVARIANT RefusedForGood
