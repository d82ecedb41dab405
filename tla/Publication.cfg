SPECIFICATION FairSpec
CONSTANTS
  s1 = s1
  s2 = s2
  Senders = {s1, s2}
  ChannelCap = 1
  Faults = {"dial", "open", "connection", "channel"}
  MaxCalls = 3
  MaxFaults = 2
  MaxRestarts = 1
CHECK_DEADLOCK FALSE
INVARIANTS TypeOK ReceivedInOrder NothingVanishes SomeSenderFree
PROPERTIES SendReturns CachedIsPublished
