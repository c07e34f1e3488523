SPECIFICATION FairSpec
CONSTANTS
  w1 = w1
  w2 = w2
  NumEvents = 2
  Workers <- MCWorkers
  BatchSize = 2
  MaxRetries = 2
  MaxFaults = 2
INVARIANT PublishedWasEmitted
PROPERTIES PublishedIsFinal SettledUnlessDropped
CHECK_DEADLOCK FALSE
