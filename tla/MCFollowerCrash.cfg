\* A crash never leaves a store that cannot be opened, as store/mod.rs says.
SPECIFICATION Spec
CONSTANTS
  Daemons = {d}
  NoDaemon = NoDaemon
  NoFrontier = NoFrontier
  Lost = Lost
  Empty = Empty
  LogPage = 2
  MaxBlock = 2
  MaxDeclarations = 2
  DeclarationSizes = {2}
  Droppable = {0}
  MaxKills = 1
  MaxPowerCuts = 1
INVARIANTS
  CrashIsNotDamage
CHECK_DEADLOCK FALSE
