SPECIFICATION FairSpec
CONSTANTS
  Unset = Unset
  Garbage = Garbage
  Environments <- MCEnvironments
  Messages <- MCMessages
  MaxWorkers = 2
  MaxMessages = 2
  MaxConnections = 2
INVARIANTS Accounting DrainedBeforeClose RoutedIsIngestible SingleWorkerOrder AcceptedStarts
PROPERTIES StopsInTheEnd BacklogDrains FlowResumes
