SPECIFICATION Spec
CONSTANTS
  Players = {p1, p2}
  God = God
  MaxMessage = 3
  Groups = {"MALL", "MINDIV"}
  Ignoring = {p1,p2}
  Replies = {1}
  Preempt = {"fill"}
  MaxPosts = 3
  None = None
INVARIANTS TypeOK OneReply
PROPERTIES InOrder NothingMissed
CHECK_DEADLOCK FALSE
