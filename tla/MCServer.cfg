SPECIFICATION Spec
CONSTANTS
  Clients = {c1, c2}
  Savers = {s1}
  Recent = 1
  Past = 0
  Players = 1
  MaxConns = 2
  WriteTimeout = 5
  DrainTime = 1
  CallTime = 1
  Patience = 6
  MaxMishaps = 1
INVARIANTS TypeOK PoolAccounted ReadyWhenServing NobodyStuck PaceKept
PROPERTIES ShutdownTimed PageShown
