SPECIFICATION Spec
CONSTANTS
  cv1 = cv1 v1 = v1 v2 = v2 l1 = l1 fast = fast None = None
  Cv = {cv1}
  DecoderAddress = DecoderAddress
  Value = {v1, v2}
  Loco = {l1}
  Speed = {fast}
  Outputs = {"MAIN", "PROG"}
  RingSize = 3
  Callbacks = 7
  Scenarios <- StationScenarios
INVARIANT StationTypeOK
INVARIANT CvTruthful
INVARIANT AddressTruthful
INVARIANT MainOff
INVARIANT ShownSafe
CHECK_DEADLOCK FALSE
