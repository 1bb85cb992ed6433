SPECIFICATION InfoSpec
CONSTANTS
  Addr = {a1, a2}
  RecvTimeout = 1
  IdleTimeout = 2
  NoPeer = NoPeer
  Subscriber = {c1}
  None = None
INVARIANTS ServerInfoTypeOK IdleIsQuiet QuietIsIdle
PROPERTIES FollowsPublisher
