SPECIFICATION Spec
CONSTANTS
  l1 = l1
  l2 = l2
  hdr = hdr
  Loops = {l1, l2}
  Headers = {hdr}
  Patterns <- MCPatterns
  Intensities = {1, 10}
  NoHeader = NoHeader
  MaxStarts = 2
  MaxCommands = 3
  MaxNonce = 2
INVARIANTS TypeOK FoundNoncesDiffer CriticalStopsHashing RunningHasLoop
PROPERTY CommandsAreHandled
CHECK_DEADLOCK FALSE
