\* Two daemons on one store, torn writes, kills and a power cut.
SPECIFICATION Spec
CONSTANTS
  Daemons = {d, e}
  NoDaemon = NoDaemon
  NoFrontier = NoFrontier
  Lost = Lost
  Empty = Empty
  LogPage = 2
  MaxBlock = 3
  MaxDeclarations = 3
  DeclarationSizes = {2}
  Droppable = {0}
  MaxKills = 2
  MaxPowerCuts = 1
INVARIANTS
  CommittedIntact
PROPERTIES
  ImplementsReplica
CHECK_DEADLOCK FALSE
