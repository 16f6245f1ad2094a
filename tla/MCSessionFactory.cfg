SPECIFICATION FairSpec
CONSTANTS
  Connecter = {a, b}
  Channel = {1, 2, 3, 4, 5}
  NoOne = NoOne
  Inbound = Inbound
  MaxSession = 2
  MaxPosted = 2
  Listener = TRUE
INVARIANTS
  FactoryInv
  LoopAlive
PROPERTIES
  Retried
