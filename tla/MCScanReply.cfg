SPECIFICATION Spec
CONSTANTS
  Byte = {0, 1, 2}
  MaxLen = 4
  Packet <- MCPacket
  InfoSize = 3
  None = None
INVARIANTS ReplyTypeOK StaysInBounds AcceptedIsPlain RoomIsListed
