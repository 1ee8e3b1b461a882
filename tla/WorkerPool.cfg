CONSTANTS
  Workers = {w1, w2, w3}
  Capacity = 2
  MaxTasks = 4
SPECIFICATION FairSpec
INVARIANTS TypeOK ExactlyOnce NoSleeperIsNeeded
PROPERTIES WaitMeansDone ImplementsTaskPool EveryTaskRuns CallsReturn
