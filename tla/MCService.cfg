\* A server and a bot, three workers, two connections, a send queue of two.
SPECIFICATION FairSpec
CONSTANTS
  WorkerCount = 3
  MaxSessions = 2
  MaxQueue = 2
INVARIANTS PortOutlivesWorkers
PROPERTIES StopEnds RefusedThenGone
