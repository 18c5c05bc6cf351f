SPECIFICATION FairSpec
CONSTANTS
  Ports = {p1, p2, p3, p4}
  None = None
  MaxTrouble = 3
  MaxBacklog = 3
  Verified = FALSE
INVARIANTS SameLink InProgress
PROPERTIES UdpInTheEnd
