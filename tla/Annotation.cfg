CONSTANTS
    N = 3
    MaxTime = 5
SPECIFICATION Spec
INVARIANTS TimelineTrue TimelineInv
PROPERTY FaultsBegin
