SPECIFICATION Spec
CONSTANTS
  MaxTx = 2
  Kinds = {"chat", "standalone", "report", "alert", "voice", "preview", "autoid", "beacon"}
  Operators = {o1}
  Breakers = {b1}
  Disturbances = {"listen", "refresh", "busy", "watchdog"}
  Gmrs = TRUE
INVARIANTS PttReleasedBetween AbortEventOwned DrainedNeverAirs
PROPERTIES DisarmedOnlyByAiring SerialSpec
