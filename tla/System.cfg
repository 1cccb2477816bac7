SPECIFICATION FairSpec
CONSTANTS
  dashboard = dashboard
  worker = worker
  Requests = {dashboard, worker}
  Remote = {"postgres", "redis"}
  Asks <- MCAsks
  MaxPings = 2
  Slots = 1
  None = None
  MaxRestarts = 1
INVARIANTS WorkerVerdictIsTrue NoOrphanProcess IInv
PROPERTIES EveryStatusAnswered NothingLeftBehind
