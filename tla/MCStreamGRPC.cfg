CONSTANTS
  Main = main
  Receivers = {g1}
  Senders = {g2}
  MaxMessages = 2
SPECIFICATION FairSpec
INVARIANTS RequestInv NoUseAfterReturn HeadersOnce StatusUnlessCancelled
PROPERTY ReturnsAfterHandler
CHECK_DEADLOCK FALSE
