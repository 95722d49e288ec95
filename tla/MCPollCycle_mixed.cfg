\* The walk of the 64-bit counter fails in some cycles.
SPECIFICATION Spec
CONSTANTS
  d1 = d1
  d2 = d2
  Devices = {d1, d2}
  Targets <- TwoTargets
  Workers = {w1, w2}
  NoResult = NoResult
  Nothing = Nothing
  Interface <- Interfaces
  Failures <- SomeFail
  WrapStd = 2
  MaxOctets <- Octets
  MaxTime = 2
INVARIANT RateIsCarried
