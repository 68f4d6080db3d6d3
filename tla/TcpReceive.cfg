CONSTANTS
  N = 4
  TCP_WND = 4
  MSS = 2
  THRESHOLD = 2
  UNIT = 2
SPECIFICATION Spec
INVARIANT ReceiverSound
PROPERTIES EdgeAdvances Arrives
CHECK_DEADLOCK FALSE
