CONSTANTS
  Senders <- TwoSenders
  Capacity = 1
  BatchMax = 2
  Undecodable <- OldRecord
  MaxEvents = 3
  MaxRestarts = 1
SPECIFICATION FairSpec
INVARIANTS
  TypeOK
  QueuesOrdered
  PersistBeforeSend
  NothingLostSilently
  StopPersists
  ImportantFirst
PROPERTIES
  BacklogDrains
  ClosingEnds
CHECK_DEADLOCK FALSE
