SPECIFICATION FairSpec
CONSTANTS
  Deployments = {1, 2, 3}
  Declared <- MCDeclared
  Overlapping = {3}
  Serving = 1
  None = None
  MaxFaults = 2
INVARIANT SingletonAlone
INVARIANT PreviousRestorable
INVARIANT SettledServes
PROPERTY HeldReleaseStands
PROPERTY HandoverSettles
CHECK_DEADLOCK FALSE
