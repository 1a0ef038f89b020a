SPECIFICATION GrpSpec
CONSTANT N = 5
INVARIANT LinksMutual
PROPERTIES PartitionExact LeaderCutOff StaysPrecise
