CONSTANTS
  Attempts = 2
  MaxFaults = 3
SPECIFICATION FairSpec
INVARIANTS PublicOnlyTested CoreBeforeCli AnnouncedComplete
PROPERTY ReleasedAtLast
CHECK_DEADLOCK FALSE
