SPECIFICATION FairSpec
CONSTANTS
  Clients = {c1, c2}
  Requests <- MCRequests
  Envs <- MCEnvs
  Recovered <- MCRecovered
  StreamIds <- MCStreamIds
  MaxU64 = 9
  MaxCalls = 2
INVARIANTS AppendAnswers ReadsExact MetricsExact GuardedAsConfigured
PROPERTIES HealthOnlyFalls ExitZeroIsClean ShutdownEnds
