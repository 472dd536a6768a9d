\* Two faults: a crash during activation, another one during its recovery.
CONSTANTS
  MaxUpdates = 1
  MaxFaults = 2
SPECIFICATION FairSpec
INVARIANT OpensWhole
CHECK_DEADLOCK FALSE
