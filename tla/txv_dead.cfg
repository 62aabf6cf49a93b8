SPECIFICATION FairSpec
CONSTANTS
  MaxTx = 2
  Kinds = {"chat"}
  Operators = {o1}
  Breakers = {}
  Disturbances = {"refresh"}
  Gmrs = TRUE
PROPERTIES QueueServed
