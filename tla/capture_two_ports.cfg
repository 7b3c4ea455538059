SPECIFICATION CaptureSpec
CONSTANTS
  CapturePorts = {0, 1}
  NoPort = 2
  CaptureEnd = 3
  Sizes = {1, 2}
  CaptureBurst = 2
  MaxCaptured = 3
  MaxToggles = 3
INVARIANTS DisableFindsPort
CHECK_DEADLOCK FALSE
