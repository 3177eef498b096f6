SPECIFICATION FairSpec
CONSTANTS
  NumPanels = 3
  Source <- PairSource
  Static = {}
  Uses = {1}
  Noticed = {1}
  Modes = {FALSE}
  MaxValues = 2
  MaxReruns = 2
PROPERTIES BootFinishes
CHECK_DEADLOCK FALSE
