SPECIFICATION FairSpec
CONSTANTS
  Messages = {m1, m2}
  Users = {u1}
  Recipient <- OneRecipient
  Empty = Empty
  Workers = {w1, w2}
  MaxRetries = 2
  MaxFaults = 2
  MaxRestarts = 1
CHECK_DEADLOCK FALSE
INVARIANTS TypeOK DeliveredAtMostOnce SentIsDelivered
PROPERTIES StopReturns QueueMoves NothingLost PendingIsInHand
