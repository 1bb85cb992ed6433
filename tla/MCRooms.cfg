SPECIFICATION RoomsSpec
CONSTANTS
  host = host
  Client = {host, c1}
  Packet <- MCPacket
  BlockRules <- MCRules
  Query = {q1}
  None = None
INVARIANTS RoomsTypeOK EveryPluginSeesEveryPacket VerdictIsCurrent AnswersAreListed
PROPERTIES RulesComeIntoForce QueryIsAnswered ClosedRoomIsForgotten OpenRoomIsListed
