SPECIFICATION Spec
CONSTANTS
  Clients = {c1, c2, c3}
  MaxIds = 3
  MaxGeneration = 3
  MaxStale = 1
CHECK_DEADLOCK FALSE
INVARIANTS
    
    OnePlanPerGeneration
PROPERTIES
    ParkedAnswered
