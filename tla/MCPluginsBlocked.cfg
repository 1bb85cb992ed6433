SPECIFICATION FairSpec
CONSTANTS
  Packet <- MCPacket
  BlockRules <- MCRules
  Query = {q1, q2}
  None = None
PROPERTIES BlockedIsDropped
