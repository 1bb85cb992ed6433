SPECIFICATION TrafficSpec
CONSTANTS
  Value <- MCValue
  Subscriber = {c1}
  None = None
  Length = {1}
  MaxCount = 2
  MaxTotal = 2
INVARIANTS CountedOnce NothingMissed
