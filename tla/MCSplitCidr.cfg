CONSTANT W = 4
SPECIFICATION Spec
INVARIANT TypeOK
INVARIANT NoAddressLost
INVARIANT SubnetStaysOut
INVARIANT ReturnsTheDifference
INVARIANT HalvesAreDisjoint
INVARIANT ReturnsClosedForm
INVARIANT LoopInv
CHECK_DEADLOCK FALSE
