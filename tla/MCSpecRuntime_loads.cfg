SPECIFICATION FairSpec
CONSTANTS
  NumPanels = 6
  Source <- ChainSource
  Static = {5}
  Uses = {1}
  Noticed = {1}
  Modes = {TRUE, FALSE}
  MaxValues = 2
  MaxReruns = 3
INVARIANTS TypeOK LoadedIsCurrent
PROPERTIES ShowsFreshRows LatestRunEnds
CHECK_DEADLOCK FALSE
