SPECIFICATION FairSpec
CONSTANTS
  Master = m
  Slaves = {s1}
  FirstSeq <- InitialCounters
  messageMaxRetries = 2
  messageTimeout = 1
  NetworkDelay = 1
  MaxSends = 2
INVARIANTS
  TypeOK
  AtMostOnce
  PendingIsOpen
  AckMeansTaken
PROPERTY TransmissionEnds
