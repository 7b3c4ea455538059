SPECIFICATION RxSpec
CONSTANTS
  RxMbufs = {1, 2, 3, 4}
  SpMbufs = {5, 6}
  RxBurst = 2
  Inputs = {"plain", "arp", "ping"}
INVARIANTS OwnedOnce
CHECK_DEADLOCK FALSE
