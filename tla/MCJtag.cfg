SPECIFICATION FairSpec
CONSTANTS
  Size = 6
  Offset = 2
  Requests <- MCRequests
  MaxSent = 3
  MaxWaiting = 2
INVARIANTS
  TapsAsSent
  ReplyIsSampled
  RepliesInOrder
PROPERTY
  Answered
