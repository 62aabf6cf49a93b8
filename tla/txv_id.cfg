SPECIFICATION Spec
CONSTANTS
  MaxTx = 2
  Kinds = {"chat", "autoid"}
  Operators = {o1}
  Breakers = {}
  Disturbances = {"busy"}
  Gmrs = TRUE
INVARIANTS LostIdStaysArmed
