\* Daemon, database and containers come and go at any time.
CONSTANT Containers = {k1, k2, k3}
SPECIFICATION FairSpec
INVARIANTS
  TypeOK
  NoClientLeaks
  ClientIffAvailable
  ShownFollowsMonitor
  SteadyAreReported
PROPERTIES
  LoopGoesOn
  MetricsGoOn
  DockerIsFound
