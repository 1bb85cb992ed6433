SPECIFICATION Spec
CONSTANTS
  Addr = {a1, a2}
  i1 = i1
  i2 = i2
  Ip = {i1, i2}
  Task = {t1, t2}
  Slot = {s1}
  Datagram <- MixedTraffic
  PeerCap = 1
  EventCap = 2
  IgnoreIdle = TRUE
  SocketFails = FALSE
  NoAddr = NoAddr
  NoPacket = NoPacket
  Absent = Absent
  Free = Free
SYMMETRY MCSymmetry
INVARIANTS TypeOK TaskIsCached DeadIffClosing SenderIsCached IInv
PROPERTIES RemovalIsClean ImplementsSwitch
