SPECIFICATION Spec
CONSTANTS
  Addr = {a1, a2}
  i1 = i1
  i2 = i2
  Ip = {i1, i2}
  Task = {t1, t2}
  Slot = {s1, s2}
  Datagram <- CrossTraffic
  PeerCap = 1
  EventCap = 1
  IgnoreIdle = TRUE
  SocketFails = FALSE
  NoAddr = NoAddr
  NoPacket = NoPacket
  Absent = Absent
  Free = Free
PROPERTIES ImplementsSwitch
SYMMETRY MCSymmetry
