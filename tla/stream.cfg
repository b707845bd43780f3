SPECIFICATION FairSpec
CONSTANTS
  BufferCap = 2
  MaxHead = 2
  Env = {"drop", "fail", "logout", "revoke", "call", "close"}
  MaxTrouble = 2
INVARIANTS TypeOK OneWayUp NobodyWaitsInVain SubscriberKnowsHead DropIsTold
PROPERTIES ComesBackOrTells
CHECK_DEADLOCK FALSE
