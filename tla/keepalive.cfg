SPECIFICATION Spec
CONSTANTS
  keepalive = 5
  MaxDelay = 2
  MaxPackets = 2
  MaxSilence = 21
INVARIANTS NoFalseTimeout Detected
