SPECIFICATION FairSpec
CONSTANTS
  MaxTx = 2
  Kinds = {"chat", "report", "alert", "preview", "autoid", "beacon"}
  Operators = {o1}
  Breakers = {b1}
  Disturbances = {"busy", "watchdog"}
  Gmrs = FALSE
INVARIANTS AudioOnlyWhileKeyed NoSelfTranscription
PROPERTIES PttReleased SttResumes QueueServed
