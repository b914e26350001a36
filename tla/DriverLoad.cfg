\* Two applications, two loads, any resource refused.
SPECIFICATION Spec
CONSTANTS
  a1 = a1
  a2 = a2
  Apps <- TwoApps
  Lendable <- TwoBlocks
  MaxLoads = 2
INVARIANTS CallsHaveTheirResources LoadedIsUsable LeaksOnlyBlocks ReleasesOnlyHeld LentMemoryAccounted
CHECK_DEADLOCK FALSE
