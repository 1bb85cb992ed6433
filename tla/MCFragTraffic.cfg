SPECIFICATION Spec
CONSTANTS
  Key <- MCKey
  Byte = {0, 1, 2, 3, 4, 5, 6, 7}
  Datagram <- Sent
  Stray <- EvenFrame
  Frame <- MCFrame
  Capacity = 2
  None = None
  Panic = Panic
INVARIANTS FragTypeOK NoFullEntry KeptInPlace  PanicOnlyIfUneven
INVARIANTS ReturnedOnce PromptPacketIsHeld
PROPERTIES ReturnsWhatWasSent
