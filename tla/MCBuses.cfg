\* Two subscriptions to one topic, on either bus, ended and closed at any time.
CONSTANTS
  s1 = s1
  s2 = s2
  Subs = {s1, s2}
  Topic <- MCTopic
  Partitions = {0, 1}
  MaxMessages = 3
  MaxErrors = 2
SPECIFICATION FairSpec
CHECK_DEADLOCK FALSE
INVARIANTS
  LostOnlyIfRobbed
  CloseMissesOnlyLate
PROPERTIES
  DoneMeansEnded
  EventuallyHandled
