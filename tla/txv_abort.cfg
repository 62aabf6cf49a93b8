SPECIFICATION Spec
CONSTANTS
  MaxTx = 2
  Kinds = {"chat"}
  Operators = {o1}
  Breakers = {}
  Disturbances = {}
  Gmrs = TRUE
PROPERTIES KilledNeverAirs
