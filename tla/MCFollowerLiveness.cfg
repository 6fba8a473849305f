\* Gaps in the log stream, a dropped last log, dead daemons and failing calls.
SPECIFICATION LiveSpec
CONSTANTS
  Daemons = {d}
  NoDaemon = NoDaemon
  NoFrontier = NoFrontier
  Lost = Lost
  Empty = Empty
  LogPage = 2
  MaxBlock = 3
  MaxDeclarations = 3
  DeclarationSizes = {1}
  Droppable = {0, 2}
  MaxKills = 2
  MaxPowerCuts = 2
  MaxFailures = 3
PROPERTIES
  GapsHeal
  LossIsNoticed
CHECK_DEADLOCK FALSE
