\* Two overlapping executions with one repair, one fault, one restart.
SPECIFICATION FairSpec
CONSTANTS
  Execs = {e1, e2}
  Versions = {e1, e2}
  MaxCycles = 2
  MaxRestarts = 1
  Scores = {1, 2}
  Settings <- AllSettings
  MaxFaults = 2
INVARIANTS
  PromotedAsValidated
  ChampionIsPromoted
  RecordTruth
  OnlyStagedServed
  RolledBackNotServed
PROPERTIES
  ChampionNeverRegresses
  ExecutionsEnd
CHECK_DEADLOCK FALSE
