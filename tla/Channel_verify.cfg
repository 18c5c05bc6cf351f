SPECIFICATION Spec
CONSTANTS
  Ports = {p1, p2, p3}
  None = None
  MaxTrouble = 3
  MaxBacklog = 3
  Verified = TRUE
PROPERTY EstablishedByPacket
