SPECIFICATION Spec
CONSTANTS
  i1 = i1  NULL = NULL
  Instances <- OneInstance
  Steps = 2  MaxReleases = 2  MaxCommits = 1  MaxOps = 1
  MaxFaults = 2  MaxCrashes = 1  MaxReaders = 1
INVARIANTS NothingLost UpgradeIsAtomic
PROPERTIES ReplacedIsBackedUp StartsInTheEnd
