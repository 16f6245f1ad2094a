SPECIFICATION FairPath
CONSTANTS
  Message <- MCMessage
  Garbage <- MCGarbage
  Dangling <- MCGarbage
  MaxObjects = 2
  MaxMessages = 6
  MaxPersisted = 2
  Flow <- MCFlow
  MaxProduced <- MCProduced
  Links = 2
  Responder <- MCResponder
  Quota = 1
INVARIANTS
  NothingDropped
  HeldIntact
  TakenInOrder
PROPERTIES
  ImplementsFlow
  EventuallyTaken
\* The links may have nothing more to hand over.
CHECK_DEADLOCK FALSE
