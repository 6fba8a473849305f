\* The root alarm compares store and chain at the same instant, as follower.rs says.
SPECIFICATION Spec
CONSTANTS
  Daemons = {d}
  NoDaemon = NoDaemon
  NoFrontier = NoFrontier
  Lost = Lost
  Empty = Empty
  LogPage = 2
  MaxBlock = 2
  MaxDeclarations = 2
  DeclarationSizes = {2}
  Droppable = {0}
  MaxKills = 1
  MaxPowerCuts = 1
INVARIANTS
  RootAlarmIsHonest
CHECK_DEADLOCK FALSE
