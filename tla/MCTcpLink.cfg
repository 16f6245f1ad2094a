SPECIFICATION FairLink
CONSTANTS
  Connecter = {a}
  Channel = {1, 2}
  NoOne = NoOne
  Inbound = Inbound
  MaxSession = 1
  MaxPosted = 3
  Listener = FALSE
  SequenceNos <- MCSequenceNos
  Window = 2
  MaxPublished = 4
  MaxRequests = 3
  MaxDialog = 2
  MaxBreaks = 2
INVARIANTS
  LinkInv
  NothingMissed
PROPERTIES
  SubscribedArrives
  RequestTaken
\* Everything may have been published, requested and received.
CHECK_DEADLOCK FALSE
