SPECIFICATION Spec
CONSTANTS
  Part = {"market", "routing", "presigned", "prices", "flow", "multihop", "mempool", "brain", "cognition", "unified", "backend", "mesh", "pong"}
  None = None
  Torn = Torn
INVARIANTS
  
  
  
  PricesAreCurrent
  
  RecentImpactKept
  AnswersInOrder
  
  PendingCoversQueue
PROPERTIES
  ContextOnlyGrows
  
CHECK_DEADLOCK FALSE
