SPECIFICATION FairSpec
CONSTANTS
  Addr = {a1, a2}
  i1 = i1
  i2 = i2
  Ip = {i1, i2}
  Task = {t1, t2}
  Slot = {s1}
  Datagram <- LanTraffic
  PeerCap = 1
  EventCap = 1
  IgnoreIdle = FALSE
  SocketFails = TRUE
  NoAddr = NoAddr
  NoPacket = NoPacket
  Absent = Absent
  Free = Free
PROPERTIES HandlerFinishes SilentPeerLeaves KeepsBeingHeard NewAddressIsLearned WindsDown
CHECK_DEADLOCK FALSE
