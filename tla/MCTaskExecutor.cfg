CONSTANT MaxStarts = 2
SPECIFICATION FairSpec
INVARIANTS TypeOK HandlesRecorded StateTracksWorkers
  PushStreamAssigned PauseNeverStuck
PROPERTIES PauseQuiesces PauseWindsDown LifecycleSpec ImplementsPool PauseTerminates
