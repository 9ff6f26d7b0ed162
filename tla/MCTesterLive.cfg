\* Liveness and the refinement of HBridge, for a processor that keeps running.
SPECIFICATION FairSpec
CONSTANTS
  AdcValues <- PotMiddle
  MaxMs = 0
PROPERTIES
  ImplementsHBridge
  ReleaseStops
  ButtonStops
  ReleaseReturns
