\* Two devices, two workers, counters that wrap, reboots and failing walks.
SPECIFICATION FairSpec
CONSTANTS
  d1 = d1
  d2 = d2
  Devices = {d1, d2}
  Targets <- TwoTargets
  Workers = {w1, w2}
  NoResult = NoResult
  Nothing = Nothing
  Interface <- Interfaces
  Failures <- SomeFail
  WrapStd = 2
  MaxOctets <- Octets
  MaxTime = 2
INVARIANTS NoAnswerIsLost RateIsCarriedUnlessSwitched ClassifiedByAllSignals SendsGoThrough CollectNeverStuck
PROPERTIES CollectEnds EachStepCounts
